---- MODULE Spec2Model ----
(***************************************************************************)
(* Model of the "legal trainer" backend (src/src/index.ts).                *)
(*                                                                         *)
(* src/src/index.ts holds four server variants one after the other:        *)
(*   lines    1.. 710  JWT auth, review scheduler, email and SMS codes     *)
(*   lines  712..1608  the same with the mastery-threshold due policy      *)
(*   lines 1610..1990  Telegram bot codes                                  *)
(*   lines 1992..2384  email codes only                                    *)
(* The email/SMS code handlers of the first, second and fourth variant are *)
(* the same text, so the model has one "main" server (email + SMS) and one *)
(* "bot" server.  The grade handler (lines 228-279) is the same text at     *)
(* lines 1126-1177, but there requireAuth (lines 832-845) stores the user  *)
(* in req.user while the handler reads req.userId; the grade handler       *)
(* modelled here is the one of the first variant, where requireAuth        *)
(* (lines 121-134) sets req.userId.  The due and summary queries differ    *)
(* between the two variants and are modelled for both.                     *)
(*                                                                         *)
(* A handler is an async function: it runs without interruption up to an   *)
(* await, and other requests' steps interleave at the awaits.  Each        *)
(* request occupies a slot; a slot's pc is the await it is suspended at.   *)
(***************************************************************************)
EXTENDS Integers, Sequences, FiniteSets, TLC

VARIABLES
    server,     \* which server variant this process is: "main", "bot", or
                \* "mastery" (the second variant, in the query specification)
    now,        \* the clock (Date.now()): minutes in the code-authenticator
                \* specifications, days in the review-scheduler ones
    authCodes,  \* global.authCodes: code string -> codeData
    users,      \* prisma.user: channel identity -> number of user rows
    authReq,    \* requests of the code authenticator in flight, by slot
    progress,   \* prisma.userProgress: <<userId, topicId>> -> rows
    attempts,   \* prisma.quizAttempt: userId -> the scores of the user's rows
    gradeReq    \* requests of the review scheduler in flight, by slot

vars == <<server, now, authCodes, users, authReq, progress, attempts, gradeReq>>

----------------------------------------------------------------------------
(* Bounds of the model *)

\* the clock of the code authenticator stops at MaxMinute
MaxMinute == 6
\* the clock of the review scheduler stops at MaxDay
MaxDay == 1
\* Math.random() is drawn from { k / RandDen : k \in RandomDraws }
RandDen == 1000
\* progress rows the store may hold before new keys stop arriving
MaxRows == 1

RandomDraws == {0, RandDen - 1}
\* request slots: the concurrency questions are about two requests in flight
Slots == {1, 2}
\* the sequential specifications admit one request at a time
SeqSlots == {1}

Emails == {"a@mail.ru"}
Phones == {"+7001", "+7002"}
TelegramIds == {"tg1", "tg2"}
Identities == Emails \cup Phones \cup TelegramIds

\* a request field that is missing or empty (falsy in `!x`)
Empty == ""
\* the JavaScript value undefined
UNDEF == "undefined"

----------------------------------------------------------------------------
(* One-time codes *)

\* 5 * 60 * 1000 ms, in minutes
CodeTtlMinutes == 5

RECURSIVE Digits(_)
\* Number.prototype.toString() of a non-negative integer, as its digits
Digits(n) == IF n < 10 THEN <<n>> ELSE Append(Digits(n \div 10), n % 10)

\* fault: Math.floor(Math.random() * 1000000).toString()
GenerateCodeFromZero(k) == Digits((k * 1000000) \div RandDen)

\* Math.floor(100000 + Math.random() * 900000).toString(), Math.random() = k / RandDen
GenerateCode(k) == Digits(100000 + ((k * 900000) \div RandDen))

GeneratedCodes == {GenerateCode(k) : k \in RandomDraws}
\* codes a client may submit: every code that can be issued, and none
CodeInputs == GeneratedCodes \cup {<<>>}

\* a value of the Map: { email?, phone?, telegramId?, expiresAt }
CodeData(email, phone, telegramId, expiresAt) ==
    [email |-> email, phone |-> phone, telegramId |-> telegramId, expiresAt |-> expiresAt]

NoData == CodeData(UNDEF, UNDEF, UNDEF, 0)

\* fault: a set that keeps the entry already under the key
MapSetKeepsFirst(map, code, data) ==
    [c \in DOMAIN map \cup {code} |-> IF c \in DOMAIN map THEN map[c] ELSE data]

\* authCodes.set(code, data)
MapSet(map, code, data) == [c \in DOMAIN map \cup {code} |-> IF c = code THEN data ELSE map[c]]

\* fault: delete that removes nothing
MapDeleteNothing(map, code) == map

\* authCodes.delete(code)
MapDelete(map, code) == [c \in DOMAIN map \ {code} |-> map[c]]

\* fault: a code that expires at its expiresAt, not after it
IsExpiredAtBoundary(data, t) == t >= data.expiresAt

\* new Date() > codeData.expiresAt
IsExpired(data, t) == t > data.expiresAt

EmptyMap == [c \in {} |-> NoData]

----------------------------------------------------------------------------
(* Request slots of the code authenticator *)

\* op, code, ident: the route and the request body (for an issue request, code
\* is the code the handler generated); data: the codeData the handler holds;
\* stale: the Map the handler holds is no longer global.authCodes;
\* delivery: what the delivery try/catch logged; status, user: the response
AuthSlot(op, pc, code, ident, data, stale, status, user) ==
    [op |-> op, pc |-> pc, code |-> code, ident |-> ident, data |-> data,
     stale |-> stale, delivery |-> "none", status |-> status, user |-> user]

AuthIdle == AuthSlot("none", "idle", <<>>, Empty, NoData, FALSE, "none", UNDEF)

\* res.status(...).json(...): request r is answered; the slot keeps what was
\* asked and what was answered
AuthDone(r, status, user) ==
    [r EXCEPT !.pc = "done", !.data = NoData, !.stale = FALSE, !.status = status, !.user = user]

AuthFree(p) == authReq[p].pc \in {"idle", "done"}

\* what a body may hold in the place of a channel identity it does not give:
\* the empty string, or nothing
NoIdentity == {Empty, UNDEF}

\* fault: a test for the absent field only
IdentityAbsent(ident) == ident = UNDEF

\* !email, !phone, !telegramId (lines 493, 606, 1858)
IdentityMissing(ident) == ident \in NoIdentity

\* the requests a client can send to each server
MainRequests ==
    {AuthSlot("sendEmail", "recv", <<>>, e, NoData, FALSE, "none", UNDEF) : e \in Emails \cup NoIdentity}
    \cup {AuthSlot("sendSms", "recv", <<>>, ph, NoData, FALSE, "none", UNDEF) : ph \in Phones \cup NoIdentity}
    \cup {AuthSlot("verifyEmail", "recv", c, Empty, NoData, FALSE, "none", UNDEF) : c \in CodeInputs}
    \cup {AuthSlot("verifySms", "recv", c, ph, NoData, FALSE, "none", UNDEF) :
            c \in CodeInputs, ph \in Phones \cup {Empty}}

BotRequests ==
    {AuthSlot("requestCode", "recv", <<>>, t, NoData, FALSE, "none", UNDEF) : t \in TelegramIds \cup NoIdentity}
    \cup {AuthSlot("verifyCode", "recv", c, Empty, NoData, FALSE, "none", UNDEF) : c \in CodeInputs}

\* express routes the request to its handler
AuthReceive(p, r) ==
    /\ AuthFree(p)
    /\ r \in (IF server = "main" THEN MainRequests ELSE BotRequests)
    /\ authReq' = [authReq EXCEPT ![p] = r]
    /\ UNCHANGED <<server, attempts, now, authCodes, users, progress, gradeReq>>

----------------------------------------------------------------------------
(* POST /api/auth/send-email-code *)

SendEmailCode(p) ==
    /\ authReq[p].pc = "recv" /\ authReq[p].op = "sendEmail"
    /\ IF IdentityMissing(authReq[p].ident)
       THEN /\ authReq' = [authReq EXCEPT ![p] = AuthDone(authReq[p], "BadRequest", UNDEF)]
            /\ UNCHANGED authCodes
       ELSE \E k \in RandomDraws :
              LET code == GenerateCode(k)
                  data == CodeData(authReq[p].ident, UNDEF, UNDEF, now + CodeTtlMinutes)
              IN /\ authCodes' = MapSet(authCodes, code, data)
                 /\ authReq' = [authReq EXCEPT ![p] =
                        AuthSlot("sendEmail", "deliver", code, authReq[p].ident, data, FALSE, "none", UNDEF)]
    /\ UNCHANGED <<server, attempts, now, users, progress, gradeReq>>

\* fault: a catch block that lets the delivery error reach the outer handler
EmailDeliveryStatusPropagates(outcome) == IF outcome = "throws" THEN "InternalError" ELSE "ok"

\* the status sent after the delivery try/catch: the catch block swallows the error
EmailDeliveryStatus(outcome) == "ok"

\* emailTransporter.sendMail resolves or rejects, then res.json({success: true})
SendEmailDelivered(p) ==
    /\ authReq[p].pc = "deliver" /\ authReq[p].op = "sendEmail"
    /\ \E outcome \in {"sent", "throws"} :
         authReq' = [authReq EXCEPT ![p] = [AuthDone(authReq[p], EmailDeliveryStatus(outcome), UNDEF) EXCEPT !.delivery = outcome]]
    /\ UNCHANGED <<server, attempts, now, authCodes, users, progress, gradeReq>>

----------------------------------------------------------------------------
(* POST /api/auth/send-sms-code *)

\* the status sent after the delivery try/catch: the catch block swallows the error
SmsDeliveryStatus(outcome) == "ok"

\* SMS_API_ID is read from the environment; when it is empty no request is made
\* and the handler answers without suspending
SendSmsCode(p) ==
    /\ authReq[p].pc = "recv" /\ authReq[p].op = "sendSms"
    /\ IF IdentityMissing(authReq[p].ident)
       THEN /\ authReq' = [authReq EXCEPT ![p] = AuthDone(authReq[p], "BadRequest", UNDEF)]
            /\ UNCHANGED authCodes
       ELSE \E k \in RandomDraws, configured \in BOOLEAN :
              LET code == GenerateCode(k)
                  data == CodeData(UNDEF, authReq[p].ident, UNDEF, now + CodeTtlMinutes)
              IN /\ authCodes' = MapSet(authCodes, code, data)
                 /\ authReq' = [authReq EXCEPT ![p] =
                        IF configured
                        THEN AuthSlot("sendSms", "deliver", code, authReq[p].ident, data, FALSE, "none", UNDEF)
                        ELSE [AuthSlot("sendSms", "done", code, authReq[p].ident, NoData, FALSE,
                                        SmsDeliveryStatus("skipped"), UNDEF) EXCEPT !.delivery = "skipped"]]
    /\ UNCHANGED <<server, attempts, now, users, progress, gradeReq>>

\* fetch(sms.ru) and response.json() resolve or reject, then res.json({success: true})
SendSmsDelivered(p) ==
    /\ authReq[p].pc = "deliver" /\ authReq[p].op = "sendSms"
    /\ \E outcome \in {"sent", "rejected", "throws"} :
         authReq' = [authReq EXCEPT ![p] = [AuthDone(authReq[p], SmsDeliveryStatus(outcome), UNDEF) EXCEPT !.delivery = outcome]]
    /\ UNCHANGED <<server, attempts, now, authCodes, users, progress, gradeReq>>

----------------------------------------------------------------------------
(* The user store *)

\* prisma.user.create: one more row with this identity
UserCreate(store, ident) == [store EXCEPT ![ident] = @ + 1]

\* findUnique / findFirst: is there a row with this identity
UserExists(store, ident) == store[ident] > 0

\* findUnique({ where: { email } }) type-checks only on a @unique column, so a
\* second row with the same email or telegramId is refused by the database;
\* phone is looked up with findFirst and the schema is not part of the sources,
\* so a second row with the same phone is either refused or inserted
CreateOutcomes(store, field, ident) ==
    IF ~UserExists(store, ident) THEN {"created", "error"}
    ELSE IF field = "phone" THEN {"created", "error"}
    ELSE {"error"}

----------------------------------------------------------------------------
(* POST /api/auth/verify-email-code *)

\* fault: the expiry test left out
EmailCodeCheckNoExpiry(map, code, t) ==
    IF code = <<>> THEN "BadRequest"
    ELSE IF code \notin DOMAIN map THEN "InvalidCode"
    ELSE "found"

\* lines 552-569: what the handler decides before it touches the user store
EmailCodeCheck(map, code, t) ==
    IF code = <<>> THEN "BadRequest"
    ELSE IF code \notin DOMAIN map THEN "InvalidCode"
    ELSE IF IsExpired(map[code], t) THEN "CodeExpired"
    ELSE "found"

\* lines 552-569: up to the first await
VerifyEmailCode(p) ==
    /\ authReq[p].pc = "recv" /\ authReq[p].op = "verifyEmail"
    /\ LET code == authReq[p].code
           checked == EmailCodeCheck(authCodes, code, now)
       IN
       IF checked = "found"
       THEN /\ authReq' = [authReq EXCEPT ![p].pc = "find", ![p].data = authCodes[code]]
            /\ UNCHANGED authCodes
       ELSE /\ authReq' = [authReq EXCEPT ![p] = AuthDone(authReq[p], checked, UNDEF)]
            /\ authCodes' = IF checked = "CodeExpired" THEN MapDelete(authCodes, code) ELSE authCodes
    /\ UNCHANGED <<server, attempts, now, users, progress, gradeReq>>

\* lines 572-586: prisma.user.findUnique runs and the handler resumes.  The read
\* and the resumption are one step: a user once found stays found, and when none
\* is found the resumption only issues the create.
VerifyEmailFind(p) ==
    /\ authReq[p].pc = "find" /\ authReq[p].op = "verifyEmail"
    /\ LET email == authReq[p].data.email IN
       \E dbOk \in BOOLEAN :
         IF ~dbOk \/ email = UNDEF
         THEN \* the query rejects (where: { email: undefined } is refused by Prisma)
              /\ authReq' = [authReq EXCEPT ![p] = AuthDone(authReq[p], "InternalError", UNDEF)]
              /\ UNCHANGED authCodes
         ELSE IF UserExists(users, email)
         THEN /\ authCodes' = MapDelete(authCodes, authReq[p].code)
              /\ authReq' = [authReq EXCEPT ![p] = AuthDone(authReq[p], "ok", email)]
         ELSE /\ authReq' = [authReq EXCEPT ![p].pc = "create"]
              /\ UNCHANGED authCodes
    /\ UNCHANGED <<server, attempts, now, users, progress, gradeReq>>

\* lines 577-582: prisma.user.create runs in the database
VerifyEmailCreate(p) ==
    /\ authReq[p].pc = "create" /\ authReq[p].op = "verifyEmail"
    /\ LET email == authReq[p].data.email IN
       \E outcome \in CreateOutcomes(users, "email", email) :
         IF outcome = "created"
         THEN /\ users' = UserCreate(users, email)
              /\ authReq' = [authReq EXCEPT ![p].pc = "created"]
         ELSE /\ authReq' = [authReq EXCEPT ![p] = AuthDone(authReq[p], "InternalError", UNDEF)]
              /\ UNCHANGED users
    /\ UNCHANGED <<server, attempts, now, authCodes, progress, gradeReq>>

\* fault: line 586 (the clean-up) left out
VerifyEmailDoneKeepsCode(p) ==
    /\ authReq[p].pc = "created" /\ authReq[p].op = "verifyEmail"
    /\ authReq' = [authReq EXCEPT ![p] = AuthDone(authReq[p], "ok", authReq[p].data.email)]
    /\ UNCHANGED <<server, attempts, now, authCodes, users, progress, gradeReq>>

\* lines 585-595: the handler resumes after the create
VerifyEmailDone(p) ==
    /\ authReq[p].pc = "created" /\ authReq[p].op = "verifyEmail"
    /\ authCodes' = MapDelete(authCodes, authReq[p].code)
    /\ authReq' = [authReq EXCEPT ![p] = AuthDone(authReq[p], "ok", authReq[p].data.email)]
    /\ UNCHANGED <<server, attempts, now, users, progress, gradeReq>>

----------------------------------------------------------------------------
(* POST /api/auth/verify-sms-code *)

\* fault: the expiry test ahead of the phone comparison
SmsCodeCheckExpiryFirst(map, code, phone, t) ==
    IF code = <<>> \/ phone = Empty THEN "BadRequest"
    ELSE IF code \notin DOMAIN map THEN "InvalidCode"
    ELSE IF IsExpired(map[code], t) THEN "CodeExpired"
    ELSE IF map[code].phone # phone THEN "InvalidCode"
    ELSE "found"

\* lines 650-666: what the handler decides before it touches the user store
SmsCodeCheck(map, code, phone, t) ==
    IF code = <<>> \/ phone = Empty THEN "BadRequest"
    ELSE IF code \notin DOMAIN map THEN "InvalidCode"
    ELSE IF map[code].phone # phone THEN "InvalidCode"
    ELSE IF IsExpired(map[code], t) THEN "CodeExpired"
    ELSE "found"

\* lines 650-666: up to the first await
VerifySmsCode(p) ==
    /\ authReq[p].pc = "recv" /\ authReq[p].op = "verifySms"
    /\ LET code == authReq[p].code
           checked == SmsCodeCheck(authCodes, code, authReq[p].ident, now)
       IN
       IF checked = "found"
       THEN /\ authReq' = [authReq EXCEPT ![p].pc = "find", ![p].data = authCodes[code]]
            /\ UNCHANGED authCodes
       ELSE /\ authReq' = [authReq EXCEPT ![p] = AuthDone(authReq[p], checked, UNDEF)]
            /\ authCodes' = IF checked = "CodeExpired" THEN MapDelete(authCodes, code) ELSE authCodes
    /\ UNCHANGED <<server, attempts, now, users, progress, gradeReq>>

\* lines 669-675: prisma.user.findFirst({ where: { phone } }) runs and the handler
\* resumes; phone is the request's phone
VerifySmsFind(p) ==
    /\ authReq[p].pc = "find" /\ authReq[p].op = "verifySms"
    /\ LET phone == authReq[p].ident IN
       \E dbOk \in BOOLEAN :
         IF ~dbOk
         THEN /\ authReq' = [authReq EXCEPT ![p] = AuthDone(authReq[p], "InternalError", UNDEF)]
              /\ UNCHANGED authCodes
         ELSE IF UserExists(users, phone)
         THEN /\ authCodes' = MapDelete(authCodes, authReq[p].code)
              /\ authReq' = [authReq EXCEPT ![p] = AuthDone(authReq[p], "ok", phone)]
         ELSE /\ authReq' = [authReq EXCEPT ![p].pc = "create"]
              /\ UNCHANGED authCodes
    /\ UNCHANGED <<server, attempts, now, users, progress, gradeReq>>

\* line 671: prisma.user.create({ data: { phone, name: phone } }) runs in the database
VerifySmsCreate(p) ==
    /\ authReq[p].pc = "create" /\ authReq[p].op = "verifySms"
    /\ LET phone == authReq[p].ident IN
       \E outcome \in CreateOutcomes(users, "phone", phone) :
         IF outcome = "created"
         THEN /\ users' = UserCreate(users, phone)
              /\ authReq' = [authReq EXCEPT ![p].pc = "created"]
         ELSE /\ authReq' = [authReq EXCEPT ![p] = AuthDone(authReq[p], "InternalError", UNDEF)]
              /\ UNCHANGED users
    /\ UNCHANGED <<server, attempts, now, authCodes, progress, gradeReq>>

\* fault: line 674 (the clean-up) left out
VerifySmsDoneKeepsCode(p) ==
    /\ authReq[p].pc = "created" /\ authReq[p].op = "verifySms"
    /\ authReq' = [authReq EXCEPT ![p] = AuthDone(authReq[p], "ok", authReq[p].ident)]
    /\ UNCHANGED <<server, attempts, now, authCodes, users, progress, gradeReq>>

\* lines 674-675: the handler resumes after the create
VerifySmsDone(p) ==
    /\ authReq[p].pc = "created" /\ authReq[p].op = "verifySms"
    /\ authCodes' = MapDelete(authCodes, authReq[p].code)
    /\ authReq' = [authReq EXCEPT ![p] = AuthDone(authReq[p], "ok", authReq[p].ident)]
    /\ UNCHANGED <<server, attempts, now, users, progress, gradeReq>>

----------------------------------------------------------------------------
(* The bot server: POST /api/auth/request-code *)

\* the status sent after the delivery try/catch: the catch block swallows the error
BotDeliveryStatus(outcome) == "ok"

\* lines 1856-1873.  The handler builds a new Map and makes it global.authCodes:
\* a verification suspended at an await still holds the Map it read, so what it
\* later deletes is deleted from a Map that is no longer the registry (stale).
RequestCode(p) ==
    /\ authReq[p].pc = "recv" /\ authReq[p].op = "requestCode"
    /\ IF IdentityMissing(authReq[p].ident)
       THEN /\ authReq' = [authReq EXCEPT ![p] = AuthDone(authReq[p], "BadRequest", UNDEF)]
            /\ UNCHANGED authCodes
       ELSE \E k \in RandomDraws :
              LET code == GenerateCode(k)
                  data == CodeData(UNDEF, UNDEF, authReq[p].ident, now + CodeTtlMinutes)
              IN /\ authCodes' = MapSet(EmptyMap, code, data)
                 /\ authReq' = [q \in DOMAIN authReq |->
                        IF q = p
                        THEN AuthSlot("requestCode", "deliver", code, authReq[p].ident, data, FALSE, "none", UNDEF)
                        ELSE IF authReq[q].op = "verifyCode" /\ authReq[q].pc \in {"find", "create", "created"}
                        THEN [authReq[q] EXCEPT !.stale = TRUE]
                        ELSE authReq[q]]
    /\ UNCHANGED <<server, attempts, now, users, progress, gradeReq>>

\* lines 1876-1898: fetch(api.telegram.org) resolves ok, resolves not ok, or rejects
RequestCodeDelivered(p) ==
    /\ authReq[p].pc = "deliver" /\ authReq[p].op = "requestCode"
    /\ \E outcome \in {"sent", "rejected", "throws"} :
         authReq' = [authReq EXCEPT ![p] = [AuthDone(authReq[p], BotDeliveryStatus(outcome), UNDEF) EXCEPT !.delivery = outcome]]
    /\ UNCHANGED <<server, attempts, now, authCodes, users, progress, gradeReq>>

----------------------------------------------------------------------------
(* The bot server: POST /api/auth/verify-code *)

\* authCodes.delete(code) on the Map the handler holds
HeldDelete(p) == IF authReq[p].stale THEN authCodes ELSE MapDelete(authCodes, authReq[p].code)

\* fault: an absent code reported as expired
BotCodeCheckAbsentExpired(map, code, t) ==
    IF code = <<>> THEN "BadRequest"
    ELSE IF code \notin DOMAIN map THEN "CodeExpired"
    ELSE IF IsExpired(map[code], t) THEN "CodeExpired"
    ELSE "found"

\* lines 1907-1924: what the handler decides before it touches the user store
BotCodeCheck(map, code, t) ==
    IF code = <<>> THEN "BadRequest"
    ELSE IF code \notin DOMAIN map THEN "InvalidCode"
    ELSE IF IsExpired(map[code], t) THEN "CodeExpired"
    ELSE "found"

\* lines 1907-1924: up to the first await
VerifyCode(p) ==
    /\ authReq[p].pc = "recv" /\ authReq[p].op = "verifyCode"
    /\ LET code == authReq[p].code
           checked == BotCodeCheck(authCodes, code, now)
       IN
       IF checked = "found"
       THEN /\ authReq' = [authReq EXCEPT ![p].pc = "find", ![p].data = authCodes[code]]
            /\ UNCHANGED authCodes
       ELSE /\ authReq' = [authReq EXCEPT ![p] = AuthDone(authReq[p], checked, UNDEF)]
            /\ authCodes' = IF checked = "CodeExpired" THEN MapDelete(authCodes, code) ELSE authCodes
    /\ UNCHANGED <<server, attempts, now, users, progress, gradeReq>>

\* lines 1927-1944: prisma.user.findUnique({ where: { telegramId } }) runs and the
\* handler resumes
VerifyCodeFind(p) ==
    /\ authReq[p].pc = "find" /\ authReq[p].op = "verifyCode"
    /\ LET tg == authReq[p].data.telegramId IN
       \E dbOk \in BOOLEAN :
         IF ~dbOk \/ tg = UNDEF
         THEN /\ authReq' = [authReq EXCEPT ![p] = AuthDone(authReq[p], "InternalError", UNDEF)]
              /\ UNCHANGED authCodes
         ELSE IF UserExists(users, tg)
         THEN /\ authCodes' = HeldDelete(p)
              /\ authReq' = [authReq EXCEPT ![p] = AuthDone(authReq[p], "ok", tg)]
         ELSE /\ authReq' = [authReq EXCEPT ![p].pc = "create"]
              /\ UNCHANGED authCodes
    /\ UNCHANGED <<server, attempts, now, users, progress, gradeReq>>

\* lines 1932-1940: prisma.user.create runs in the database
VerifyCodeCreate(p) ==
    /\ authReq[p].pc = "create" /\ authReq[p].op = "verifyCode"
    /\ LET tg == authReq[p].data.telegramId IN
       \E outcome \in CreateOutcomes(users, "telegramId", tg) :
         IF outcome = "created"
         THEN /\ users' = UserCreate(users, tg)
              /\ authReq' = [authReq EXCEPT ![p].pc = "created"]
         ELSE /\ authReq' = [authReq EXCEPT ![p] = AuthDone(authReq[p], "InternalError", UNDEF)]
              /\ UNCHANGED users
    /\ UNCHANGED <<server, attempts, now, authCodes, progress, gradeReq>>

\* lines 1943-1955: the handler resumes after the create
VerifyCodeDone(p) ==
    /\ authReq[p].pc = "created" /\ authReq[p].op = "verifyCode"
    /\ authCodes' = HeldDelete(p)
    /\ authReq' = [authReq EXCEPT ![p] = AuthDone(authReq[p], "ok", authReq[p].data.telegramId)]
    /\ UNCHANGED <<server, attempts, now, users, progress, gradeReq>>

----------------------------------------------------------------------------
(* Specifications of the code authenticator *)

\* a minute passes
TickMinute ==
    /\ now < MaxMinute
    /\ now' = now + 1
    /\ UNCHANGED <<server, attempts, authCodes, users, authReq, progress, gradeReq>>

AuthInit ==
    /\ attempts = <<>>
    /\ server \in {"main", "bot"}
    /\ now = 0
    /\ authCodes = EmptyMap
    /\ users = [i \in Identities |-> 0]
    /\ authReq = [p \in Slots |-> AuthIdle]
    /\ progress = <<>>
    /\ gradeReq = <<>>

\* one step of the handler that slot p runs
AuthStep(p) ==
    \/ SendEmailCode(p) \/ SendEmailDelivered(p)
    \/ SendSmsCode(p) \/ SendSmsDelivered(p)
    \/ VerifyEmailCode(p) \/ VerifyEmailFind(p) \/ VerifyEmailCreate(p) \/ VerifyEmailDone(p)
    \/ VerifySmsCode(p) \/ VerifySmsFind(p) \/ VerifySmsCreate(p) \/ VerifySmsDone(p)
    \/ RequestCode(p) \/ RequestCodeDelivered(p)
    \/ VerifyCode(p) \/ VerifyCodeFind(p) \/ VerifyCodeCreate(p) \/ VerifyCodeDone(p)

\* requests arrive one after the other: the next one after the response
AuthSeqNext ==
    \/ TickMinute
    \/ \E p \in SeqSlots : (\E r \in MainRequests \cup BotRequests : AuthReceive(p, r)) \/ AuthStep(p)

AuthSeqSpec == AuthInit /\ [][AuthSeqNext]_vars

\* requests arrive at any time and their steps interleave; the interleavings
\* of two requests take milliseconds, so the clock stands still meanwhile
AuthNext ==
    \/ \E p \in Slots : (\E r \in MainRequests \cup BotRequests : AuthReceive(p, r)) \/ AuthStep(p)

AuthSpec == AuthInit /\ [][AuthNext]_vars

----------------------------------------------------------------------------
(* Review scheduler: the progress store *)

UserIds == {"u1", "u2"}
Topics == {"t1", "t2"}
Keys == UserIds \X Topics

\* a nullable DateTime: <<>> is null, <<d>> is the date d
NullDate == <<>>
DateOf(d) == <<d>>

\* a UserProgress row; its id is its key and its place among the key's rows
ProgressRow(masteryLevel, lastReviewed, nextReview, updatedAt) ==
    [masteryLevel |-> masteryLevel, lastReviewed |-> lastReviewed,
     nextReview |-> nextReview, updatedAt |-> updatedAt]

RECURSIVE SumRows(_, _)
SumRows(store, keys) ==
    IF keys = {} THEN 0
    ELSE LET k == CHOOSE x \in keys : TRUE IN Len(store[k]) + SumRows(store, keys \ {k})

TotalRows(store) == SumRows(store, DOMAIN store)

\* function getNextIntervalDaysByMastery(masteryLevel)
Min(a, b) == IF a < b THEN a ELSE b
Max(a, b) == IF a > b THEN a ELSE b
\* fault: a ladder that doubles
mappingDoubling == <<1, 2, 4, 8, 16, 32>>

mapping == <<1, 2, 4, 7, 14, 30>>
getNextIntervalDaysByMastery(masteryLevel) ==
    LET idx == Max(0, Min(masteryLevel, Len(mapping) - 1)) IN mapping[idx + 1]

\* a row the grade handler wrote on day d at level L
GradedRow(L, d) ==
    ProgressRow(L, DateOf(d), DateOf(d + getNextIntervalDaysByMastery(L)), d)

----------------------------------------------------------------------------
(* Review scheduler: POST /api/review/grade *)

\* the JSON value of the body's quality field
Num(v) == [kind |-> "number", v |-> v]
QUndefined == [kind |-> "undefined", v |-> 0]
\* the qualities a client sends: the ends of the failing range 0..2 and of the
\* passing range 3..5, the two nearest values out of range, and none
Qualities == {Num(v) : v \in {-1, 0, 2, 3, 5, 6}} \cup {QUndefined}

\* JSON values that are not integers: the number v + 1/2, null, and the
\* string of the digits of v
Half(v) == [kind |-> "half", v |-> v]
QNull == [kind |-> "null", v |-> 0]
Str(v) == [kind |-> "string", v |-> v]

\* quality < n, quality > n, quality >= n on a JSON value and an integer n:
\* the operators compare ToNumber(quality), which is NaN for undefined (every
\* comparison false), 0 for null and the number written for a numeric string
QLess(q, n) == q.kind # "undefined" /\ q.v < n
QGreater(q, n) == q.kind # "undefined" /\ (IF q.kind = "half" THEN q.v >= n ELSE q.v > n)
QAtLeast(q, n) == q.kind # "undefined" /\ q.v >= n

NoRow == [idx |-> 0, masteryLevel |-> 0]

\* userId, topicId, quality: the token's user and the request body; row: the
\* progress row the handler holds; newMastery, at, next: the update it issued;
\* status, masteryLevel, nextReview: the response
GradeSlot(pc, userId, topicId, quality, row, newMastery, at, next, status, masteryLevel, nextReview) ==
    [pc |-> pc, userId |-> userId, topicId |-> topicId, quality |-> quality, row |-> row,
     newMastery |-> newMastery, at |-> at, next |-> next,
     status |-> status, masteryLevel |-> masteryLevel, nextReview |-> nextReview]

GradeIdle == GradeSlot("idle", Empty, Empty, QUndefined, NoRow, 0, 0, 0, "none", 0, NullDate)

\* res.status(...).json(...): request r is answered; the slot keeps what was
\* asked and what was answered
GradeDone(r, status, masteryLevel, nextReview) ==
    [r EXCEPT !.pc = "done", !.row = NoRow, !.newMastery = 0, !.at = 0, !.next = 0,
              !.status = status, !.masteryLevel = masteryLevel, !.nextReview = nextReview]

GradeFree(p) == gradeReq[p].pc \in {"idle", "done"}

\* userId is the user the bearer token was signed for, Empty without a valid token
GradeRequests ==
    {GradeSlot("recv", u, t, q, NoRow, 0, 0, 0, "none", 0, NullDate) :
        u \in UserIds \cup {Empty}, t \in Topics \cup {Empty}, q \in Qualities}

\* express routes the request; requests that would add a row stop arriving
\* once the store holds MaxRows rows
GradeReceive(p, r) ==
    /\ GradeFree(p)
    /\ r \in GradeRequests
    /\ IF r.userId = Empty \/ r.topicId = Empty THEN TRUE
       ELSE progress[<<r.userId, r.topicId>>] # <<>> \/ TotalRows(progress) < MaxRows
    /\ gradeReq' = [gradeReq EXCEPT ![p] = r]
    /\ UNCHANGED <<server, attempts, now, authCodes, users, authReq, progress>>

\* fault: `!quality` in place of `quality === undefined`
QualityFalsy(q) == q.kind = "undefined" \/ (q.kind = "number" /\ q.v = 0)

\* line 233: quality === undefined
QualityMissing(q) == q.kind = "undefined"

\* fault: the upper limit left out
QualityNegativeOnly(q) == QLess(q, 0)

\* line 236: quality < 0 || quality > 5
QualityOutOfRange(q) == QLess(q, 0) \/ QGreater(q, 5)

\* requireAuth (lines 121-134) and lines 230-241: up to the first await
ReviewGrade(p) ==
    /\ gradeReq[p].pc = "recv"
    /\ LET r == gradeReq[p] IN
       gradeReq' = [gradeReq EXCEPT ![p] =
         IF r.userId = Empty THEN GradeDone(r, "Unauthorized", 0, NullDate)
         ELSE IF r.topicId = Empty \/ QualityMissing(r.quality) THEN GradeDone(r, "InvalidInput", 0, NullDate)
         ELSE IF QualityOutOfRange(r.quality) THEN GradeDone(r, "InvalidInput", 0, NullDate)
         ELSE [r EXCEPT !.pc = "find"]]
    /\ UNCHANGED <<server, attempts, now, authCodes, users, authReq, progress>>

\* line 241: prisma.userProgress.findFirst runs; the handler resumes with the row
\* it read (line 246 on) or issues the create (line 243)
GradeFind(p) ==
    /\ gradeReq[p].pc = "find"
    /\ LET r == gradeReq[p]
           rows == progress[<<r.userId, r.topicId>>]
       IN \E dbOk \in BOOLEAN :
            gradeReq' = [gradeReq EXCEPT ![p] =
              IF ~dbOk THEN GradeDone(r, "InternalError", 0, NullDate)
              ELSE IF rows = <<>> THEN [r EXCEPT !.pc = "create"]
              ELSE [r EXCEPT !.pc = "found",
                             !.row = [idx |-> 1, masteryLevel |-> rows[1].masteryLevel]]]
    /\ UNCHANGED <<server, attempts, now, authCodes, users, authReq, progress>>

\* line 243: prisma.userProgress.create({ data: { userId, topicId, masteryLevel: 0 } })
\* runs in the database
GradeCreate(p) ==
    /\ gradeReq[p].pc = "create"
    /\ LET r == gradeReq[p]
           key == <<r.userId, r.topicId>>
       IN \E dbOk \in BOOLEAN :
            IF dbOk
            THEN /\ progress' = [progress EXCEPT ![key] =
                        Append(@, ProgressRow(0, NullDate, NullDate, now))]
                 /\ gradeReq' = [gradeReq EXCEPT ![p].pc = "found",
                        ![p].row = [idx |-> Len(progress[key]) + 1, masteryLevel |-> 0]]
            ELSE /\ gradeReq' = [gradeReq EXCEPT ![p] = GradeDone(r, "InternalError", 0, NullDate)]
                 /\ UNCHANGED progress
    /\ UNCHANGED <<server, attempts, now, authCodes, users, authReq>>

\* fault: Math.min(5, ...) left out
NewMasteryUncapped(quality, masteryLevel) ==
    IF QAtLeast(quality, 3) THEN masteryLevel + 1 ELSE 0

\* lines 246-256: the new mastery level
NewMastery(quality, masteryLevel) ==
    IF QAtLeast(quality, 3) THEN Min(5, masteryLevel + 1) ELSE 0

\* fault: the interval of the level before the grade
NextDaysOfOldLevel(quality, masteryLevel) ==
    IF QAtLeast(quality, 3) THEN getNextIntervalDaysByMastery(masteryLevel) ELSE 1

\* lines 247-256: the days to the next review
NextDays(quality, masteryLevel) ==
    IF QAtLeast(quality, 3)
    THEN getNextIntervalDaysByMastery(NewMastery(quality, masteryLevel))
    ELSE 1

\* fault: every next review one day on, whatever the level
GradeComputeNextDay(p) ==
    /\ gradeReq[p].pc = "found"
    /\ LET r == gradeReq[p] IN
       gradeReq' = [gradeReq EXCEPT ![p] =
         [r EXCEPT !.pc = "update",
                   !.newMastery = NewMastery(r.quality, r.row.masteryLevel),
                   !.at = now,
                   !.next = now + 1]]
    /\ UNCHANGED <<server, attempts, now, authCodes, users, authReq, progress>>

\* lines 246-261: the handler resumes with the row, reads the clock and issues
\* the update
GradeCompute(p) ==
    /\ gradeReq[p].pc = "found"
    /\ LET r == gradeReq[p] IN
       gradeReq' = [gradeReq EXCEPT ![p] =
         [r EXCEPT !.pc = "update",
                   !.newMastery = NewMastery(r.quality, r.row.masteryLevel),
                   !.at = now,
                   !.next = now + NextDays(r.quality, r.row.masteryLevel)]]
    /\ UNCHANGED <<server, attempts, now, authCodes, users, authReq, progress>>

\* lines 261-274: prisma.userProgress.update({ where: { id } }) runs in the
\* database, and the handler answers with the updated row
GradeUpdate(p) ==
    /\ gradeReq[p].pc = "update"
    /\ LET r == gradeReq[p]
           key == <<r.userId, r.topicId>>
       IN \E dbOk \in BOOLEAN :
            IF dbOk
            THEN /\ progress' = [progress EXCEPT ![key][r.row.idx] =
                        ProgressRow(r.newMastery, DateOf(r.at), DateOf(r.next), now)]
                 /\ gradeReq' = [gradeReq EXCEPT ![p] = GradeDone(r, "ok", r.newMastery, DateOf(r.next))]
            ELSE /\ gradeReq' = [gradeReq EXCEPT ![p] = GradeDone(r, "InternalError", 0, NullDate)]
                 /\ UNCHANGED progress
    /\ UNCHANGED <<server, attempts, now, authCodes, users, authReq>>

----------------------------------------------------------------------------
(* Specifications of the review scheduler *)

\* a day passes; a request takes milliseconds, so none is in flight meanwhile
TickDay ==
    /\ now < MaxDay
    /\ \A p \in Slots : GradeFree(p)
    /\ now' = now + 1
    /\ UNCHANGED <<server, attempts, authCodes, users, authReq, progress, gradeReq>>

ReviewInit ==
    /\ attempts = <<>>
    /\ server = "main"
    /\ now = 0
    /\ authCodes = EmptyMap
    /\ users = [i \in Identities |-> 0]
    /\ authReq = <<>>
    /\ progress = [k \in Keys |-> <<>>]
    /\ gradeReq = [p \in Slots |-> GradeIdle]

\* one step of the handler that slot p runs
GradeStep(p) ==
    \/ ReviewGrade(p) \/ GradeFind(p) \/ GradeCreate(p) \/ GradeCompute(p) \/ GradeUpdate(p)

\* requests arrive one after the other: the next one after the response
ReviewSeqNext ==
    \/ TickDay
    \/ \E p \in SeqSlots : (\E r \in GradeRequests : GradeReceive(p, r)) \/ GradeStep(p)

ReviewSeqSpec == ReviewInit /\ [][ReviewSeqNext]_vars

----------------------------------------------------------------------------
(* Review scheduler: GET /api/review/due and GET /api/progress/summary *)

\* The two queries exist in two variants: the first ("main", lines 160-226)
\* selects by date, the second ("mastery", lines 1059-1124) by mastery level.
\* quizAttempt rows are modelled by their scores.

\* take: 20
DueTake == 20

\* what (req as any).userId holds in the handler: the first variant's
\* requireAuth stores the token's user there (line 129), the second variant's
\* stores it in req.user (line 840) and req.userId stays undefined
HandlerUserId(variant, tokenUser) == IF variant = "main" THEN tokenUser ELSE UNDEF

\* where: { userId }: Prisma leaves a filter whose value is undefined out of
\* the query
WhereUserId(userId, rowUser) == userId = UNDEF \/ rowUser = userId

\* the rows of prisma.userProgress with their columns
StoredRows(store) ==
    UNION {{[userId |-> k[1], topicId |-> k[2], idx |-> i,
             masteryLevel |-> store[k][i].masteryLevel,
             nextReview |-> store[k][i].nextReview,
             updatedAt |-> store[k][i].updatedAt] : i \in 1..Len(store[k])}
           : k \in DOMAIN store}

\* fault: one selection rule, by mastery level, in both variants
DueWhereMasteryOnly(variant, userId, t, x) ==
    /\ WhereUserId(userId, x.userId)
    /\ x.masteryLevel < 3

\* the where of /api/review/due: lines 192-198 and lines 1093-1096
DueWhere(variant, userId, t, x) ==
    /\ WhereUserId(userId, x.userId)
    /\ IF variant = "main"
       THEN (x.nextReview # NullDate /\ x.nextReview[1] <= t) \/ x.nextReview = NullDate
       ELSE x.masteryLevel < 3

\* the rows /api/review/due selects before ordering and take
DueRows(variant, userId, t, store) ==
    {x \in StoredRows(store) : DueWhere(variant, userId, t, x)}

\* the dueCount of /api/progress/summary: count({ where: { userId, nextReview:
\* { lte: new Date() } } }) at line 167 (lte never matches null), and
\* progress.filter(p => p.masteryLevel < 3).length at line 1073
SummaryDueCount(variant, userId, t, store) ==
    Cardinality({x \in StoredRows(store) :
        /\ WhereUserId(userId, x.userId)
        /\ IF variant = "main"
           THEN x.nextReview # NullDate /\ x.nextReview[1] <= t
           ELSE x.masteryLevel < 3})

\* orderBy names no place for nulls, so they go where the database puts them
\* in an ascending sort: last in PostgreSQL, first in MongoDB
NullsPlacements == {"first", "last"}

\* orderBy: [{ nextReview: 'asc' }, { updatedAt: 'desc' }]: row a sorts
\* strictly before row b
RowPrecedes(a, b, nulls) ==
    IF a.nextReview = NullDate /\ b.nextReview = NullDate THEN a.updatedAt > b.updatedAt
    ELSE IF a.nextReview = NullDate THEN nulls = "first"
    ELSE IF b.nextReview = NullDate THEN nulls = "last"
    ELSE \/ a.nextReview[1] < b.nextReview[1]
         \/ a.nextReview[1] = b.nextReview[1] /\ a.updatedAt > b.updatedAt

\* the orders in which the database may return the rows: rows the orderBy
\* does not tell apart come in any order
OrderedBy(rows, nulls) ==
    {s \in [1..Cardinality(rows) -> rows] :
        /\ \A i, j \in 1..Cardinality(rows) : i # j => s[i] # s[j]
        /\ \A i, j \in 1..Cardinality(rows) : i < j => ~RowPrecedes(s[j], s[i], nulls)}

Take(s, n) == SubSeq(s, 1, Min(n, Len(s)))

\* items: due.map(d => ({ topicId, masteryLevel, nextReview, ... }))
DueItem(d) == [topicId |-> d.topicId, masteryLevel |-> d.masteryLevel, nextReview |-> d.nextReview]

\* op: the route; tokenUser: the user the bearer token was signed for, Empty
\* without a valid token; userId: the handler's userId; due: the rows findMany
\* returned; the rest is the response
QuerySlot(pc, op, tokenUser, userId, status, due, total, items, dueCount, masteredTopics, totalTrackedTopics) ==
    [pc |-> pc, op |-> op, tokenUser |-> tokenUser, userId |-> userId, status |-> status,
     due |-> due, total |-> total, items |-> items, dueCount |-> dueCount,
     masteredTopics |-> masteredTopics, totalTrackedTopics |-> totalTrackedTopics,
     totalAttempts |-> 0, avgScore |-> 0]

QueryIdle == QuerySlot("idle", Empty, Empty, Empty, "none", <<>>, 0, <<>>, 0, 0, 0)

QueryRequests ==
    {QuerySlot("recv", op, u, Empty, "none", <<>>, 0, <<>>, 0, 0, 0) :
        op \in {"due", "summary"}, u \in UserIds \cup {Empty}}

QueryDone(r, status, due, dueCount, masteredTopics, totalTrackedTopics) ==
    [r EXCEPT !.pc = "done", !.status = status, !.due = due, !.total = Len(due),
              !.items = [i \in 1..Len(due) |-> DueItem(due[i])],
              !.dueCount = dueCount, !.masteredTopics = masteredTopics,
              !.totalTrackedTopics = totalTrackedTopics]

\* express routes the request
QueryReceive(p, r) ==
    /\ gradeReq[p].pc \in {"idle", "done"}
    /\ r \in QueryRequests
    /\ gradeReq' = [gradeReq EXCEPT ![p] = r]
    /\ UNCHANGED <<server, attempts, now, authCodes, users, authReq, progress>>

\* requireAuth and the handler's first lines (162, 189, 1061, 1090): up to the
\* await of the database call
QueryAuth(p) ==
    /\ gradeReq[p].pc = "recv"
    /\ LET r == gradeReq[p] IN
       gradeReq' = [gradeReq EXCEPT ![p] =
         IF r.tokenUser = Empty THEN QueryDone(r, "Unauthorized", <<>>, 0, 0, 0)
         ELSE [r EXCEPT !.pc = "find", !.userId = HandlerUserId(server, r.tokenUser)]]
    /\ UNCHANGED <<server, attempts, now, authCodes, users, authReq, progress>>

\* /api/review/due, lines 191-221 and 1092-1119: findMany runs in the database
\* and the handler answers with the rows
ReviewDue(p) ==
    /\ gradeReq[p].pc = "find"
    /\ gradeReq[p].op = "due"
    /\ LET r == gradeReq[p] IN
       \E dbOk \in BOOLEAN, nulls \in NullsPlacements :
         \E s \in OrderedBy(DueRows(server, r.userId, now, progress), nulls) :
            gradeReq' = [gradeReq EXCEPT ![p] =
              IF ~dbOk THEN QueryDone(r, "InternalError", <<>>, 0, 0, 0)
              ELSE QueryDone(r, "ok", Take(s, DueTake), 0, 0, 0)]
    /\ UNCHANGED <<server, attempts, now, authCodes, users, authReq, progress>>

\* a quizAttempt table without rows
NoAttempts == [u \in UserIds |-> <<>>]

RECURSIVE AttemptsWhere(_, _, _)
\* prisma.quizAttempt.findMany({ where: { userId } }) over the users in us:
\* the scores of the rows found
AttemptsWhere(store, userId, us) ==
    IF us = {} THEN <<>>
    ELSE LET u == CHOOSE x \in us : TRUE IN
         (IF WhereUserId(userId, u) THEN store[u] ELSE <<>>) \o AttemptsWhere(store, userId, us \ {u})

FoundAttempts(store, userId) == AttemptsWhere(store, userId, DOMAIN store)

RECURSIVE SumScores(_)
\* attempts.reduce((s, a) => s + a.score, 0)
SumScores(scores) == IF scores = <<>> THEN 0 ELSE scores[1] + SumScores(Tail(scores))

\* fault: Math.floor(a / b)
MathFloor(a, b) == a \div b

\* Math.round(a / b) for integers a and b > 0: the nearest integer, a half
\* going to the integer above
MathRound(a, b) == (2 * a + b) \div (2 * b)

\* line 171 and line 1069
AvgScore(scores) ==
    IF Len(scores) > 0 THEN MathRound(SumScores(scores), Len(scores)) ELSE 0

\* /api/progress/summary, lines 164-180 and 1063-1081: the queries run in the
\* database and the handler answers with the counts
ProgressSummary(p) ==
    /\ gradeReq[p].pc = "find"
    /\ gradeReq[p].op = "summary"
    /\ LET r == gradeReq[p]
           mine == {x \in StoredRows(progress) : WhereUserId(r.userId, x.userId)}
       IN \E dbOk \in BOOLEAN :
            gradeReq' = [gradeReq EXCEPT ![p] =
              IF ~dbOk THEN QueryDone(r, "InternalError", <<>>, 0, 0, 0)
              ELSE [QueryDone(r, "ok", <<>>,
                              SummaryDueCount(server, r.userId, now, progress),
                              Cardinality({x \in mine : x.masteryLevel >= 3}),
                              Cardinality(mine))
                    EXCEPT !.totalAttempts = Len(FoundAttempts(attempts, r.userId)),
                           !.avgScore = AvgScore(FoundAttempts(attempts, r.userId))]]
    /\ UNCHANGED <<server, attempts, now, authCodes, users, authReq, progress>>

\* The stores the queries run on are stores the grade handler leaves behind:
\* a row it created and has not updated (the update is a separate call that
\* may fail or be pending) is at level 0 with no dates; a row it updated on
\* day d to level L has lastReviewed d and nextReview d plus the interval of L
\* (one day after a failing grade, which is the interval of level 0).
MaxDueDay == 8
RowDays == {0, 1}
RowLevels == {0, 2, 3}
DueKeys == {<<"u1", "t1">>, <<"u1", "t2">>, <<"u2", "t1">>}

RowsOfKey ==
    {<<>>}
    \cup {<<ProgressRow(0, NullDate, NullDate, d)>> : d \in RowDays}
    \cup {<<ProgressRow(L, DateOf(d), DateOf(d + getNextIntervalDaysByMastery(L)), d)>> :
            L \in RowLevels, d \in RowDays}

DueInit ==
    /\ attempts = NoAttempts
    /\ server \in {"main", "mastery"}
    /\ now \in 1..MaxDueDay
    /\ authCodes = EmptyMap
    /\ users = [i \in Identities |-> 0]
    /\ authReq = <<>>
    /\ progress \in {f \in [Keys -> RowsOfKey] : \A k \in Keys \ DueKeys : f[k] = <<>>}
    /\ gradeReq = [p \in Slots |-> QueryIdle]

DueNext ==
    \E p \in SeqSlots :
        \/ \E r \in QueryRequests : QueryReceive(p, r)
        \/ QueryAuth(p)
        \/ ReviewDue(p)
        \/ ProgressSummary(p)

DueSpec == DueInit /\ [][DueNext]_vars

----------------------------------------------------------------------------
(* GET /api/progress/summary over stored quiz attempts *)

\* a user has at most MaxAttempts attempts, with scores in -1..MaxScore;
\* POST /api/quiz/attempt stores the score of the body as it is (line 365)
MaxAttempts == 3
MaxScore == 3
Scores == (0 - 1)..MaxScore

AttemptsOfUser == UNION {[1..n -> Scores] : n \in 0..MaxAttempts}

SummaryRequests == {r \in QueryRequests : r.op = "summary"}

AverageReceive(p, r) ==
    /\ gradeReq[p].pc \in {"idle", "done"}
    /\ r \in SummaryRequests
    /\ gradeReq' = [gradeReq EXCEPT ![p] = r]
    /\ UNCHANGED <<server, attempts, now, authCodes, users, authReq, progress>>

\* the attempts of u1 are any the route can have stored; u2 has none or one
AverageInit ==
    /\ server \in {"main", "mastery"}
    /\ now = 1
    /\ authCodes = EmptyMap
    /\ users = [i \in Identities |-> 0]
    /\ authReq = <<>>
    /\ progress = [k \in Keys |-> <<>>]
    /\ attempts \in {f \in [UserIds -> AttemptsOfUser] : f["u2"] \in {<<>>, <<MaxScore>>}}
    /\ gradeReq = [p \in Slots |-> QueryIdle]

AverageNext ==
    \E p \in SeqSlots :
        \/ \E r \in SummaryRequests : AverageReceive(p, r)
        \/ QueryAuth(p)
        \/ ProgressSummary(p)

AverageSpec == AverageInit /\ [][AverageNext]_vars

----------------------------------------------------------------------------
(* GET /api/review/due?limit=n *)

\* the limit a client puts in the query string, or none; the handler reads
\* nothing from req.query
LimitInputs == {QUndefined, Num(1), Num(2)}

LimitRequests ==
    {[limit |-> n] @@ r : r \in {q \in QueryRequests : q.op = "due"}, n \in LimitInputs}

\* express routes the request
LimitReceive(p, r) ==
    /\ gradeReq[p].pc \in {"idle", "done"}
    /\ r \in LimitRequests
    /\ gradeReq' = [gradeReq EXCEPT ![p] = r]
    /\ UNCHANGED <<server, attempts, now, authCodes, users, authReq, progress>>

LimitInit ==
    /\ attempts = <<>>
    /\ server \in {"main", "mastery"}
    /\ now = MaxDueDay
    /\ authCodes = EmptyMap
    /\ users = [i \in Identities |-> 0]
    /\ authReq = <<>>
    /\ progress \in {f \in [Keys -> RowsOfKey] : \A k \in Keys \ DueKeys : f[k] = <<>>}
    /\ gradeReq = [p \in Slots |-> [limit |-> QUndefined] @@ QueryIdle]

LimitNext ==
    \E p \in SeqSlots :
        \/ \E r \in LimitRequests : LimitReceive(p, r)
        \/ QueryAuth(p)
        \/ ReviewDue(p)

LimitSpec == LimitInit /\ [][LimitNext]_vars

----------------------------------------------------------------------------
(* POST /api/review/grade with a quality that is not an integer *)

\* 2.5, null, "5", and the integers 2 and 5
JsonQualities == {Half(2), QNull, Str(5), Num(2), Num(5)}

JsonGradeRequests ==
    {GradeSlot("recv", "u1", "t1", q, NoRow, 0, 0, 0, "none", 0, NullDate) : q \in JsonQualities}

\* express.json() parses the body and express routes the request
JsonGradeReceive(p, r) ==
    /\ GradeFree(p)
    /\ r \in JsonGradeRequests
    /\ gradeReq' = [gradeReq EXCEPT ![p] = r]
    /\ UNCHANGED <<server, attempts, now, authCodes, users, authReq, progress>>

\* the record of (u1, t1) is absent or was graded to level L on day 0
JsonGradeInit ==
    /\ attempts = <<>>
    /\ server = "main"
    /\ now = 0
    /\ authCodes = EmptyMap
    /\ users = [i \in Identities |-> 0]
    /\ authReq = <<>>
    /\ \E rows \in {<<>>} \cup {<<GradedRow(L, 0)>> : L \in 0..(Len(mapping) - 1)} :
         progress = [k \in Keys |-> IF k = <<"u1", "t1">> THEN rows ELSE <<>>]
    /\ gradeReq = [p \in Slots |-> GradeIdle]

JsonGradeNext ==
    \E p \in SeqSlots : (\E r \in JsonGradeRequests : JsonGradeReceive(p, r)) \/ GradeStep(p)

JsonGradeSpec == JsonGradeInit /\ [][JsonGradeNext]_vars

----------------------------------------------------------------------------
(* getNextIntervalDaysByMastery on its own *)

\* the function is called with levels in -MaxLevelArg..MaxLevelArg
MaxLevelArg == 8

LevelArgs == (0 - MaxLevelArg)..MaxLevelArg

\* two calls, with levels a and b, before they are made
IntervalInit ==
    /\ attempts = <<>>
    /\ server = "main"
    /\ now = 0
    /\ authCodes = EmptyMap
    /\ users = <<>>
    /\ authReq = <<>>
    /\ progress = <<>>
    /\ \E a \in LevelArgs, b \in LevelArgs :
         gradeReq = [pc |-> "call", a |-> a, b |-> b, fa |-> 0, fb |-> 0]

\* the two calls return
IntervalCall ==
    /\ gradeReq.pc = "call"
    /\ gradeReq' = [gradeReq EXCEPT !.pc = "return",
                       !.fa = getNextIntervalDaysByMastery(gradeReq.a),
                       !.fb = getNextIntervalDaysByMastery(gradeReq.b)]
    /\ UNCHANGED <<server, attempts, now, authCodes, users, authReq, progress>>

IntervalSpec == IntervalInit /\ [][IntervalCall]_vars

----------------------------------------------------------------------------
(* The code generator on its own *)

\* every value Math.random() takes in the model
CodeDraws == 0..(RandDen - 1)

\* a send-email-code request for which Math.random() is about to return
\* k / RandDen
CodeShapeInit ==
    /\ attempts = <<>>
    /\ server = "main"
    /\ now = 0
    /\ authCodes = EmptyMap
    /\ users = <<>>
    /\ authReq = <<>>
    /\ progress = <<>>
    /\ \E k \in CodeDraws, e \in Emails :
         gradeReq = [pc |-> "draw", k |-> k, email |-> e, code |-> <<>>]

\* lines 498-505: the code is generated and stored under itself
GenerateAndStore ==
    /\ gradeReq.pc = "draw"
    /\ LET code == GenerateCode(gradeReq.k) IN
         /\ authCodes' = MapSet(authCodes, code, CodeData(gradeReq.email, UNDEF, UNDEF, now + CodeTtlMinutes))
         /\ gradeReq' = [gradeReq EXCEPT !.pc = "stored", !.code = code]
    /\ UNCHANGED <<server, attempts, now, users, authReq, progress>>

CodeShapeSpec == CodeShapeInit /\ [][GenerateAndStore]_vars

----------------------------------------------------------------------------
(* Two grade requests for one user and topic in flight together *)

\* the qualities that pass validation
ValidQualities == {q \in Qualities : ~QualityMissing(q) /\ ~QualityOutOfRange(q)}

\* the state after two grade requests of user u1 for topic t1 arrived, the
\* store holding no row yet
GradeRaceInit ==
    /\ attempts = <<>>
    /\ server = "main"
    /\ now = 0
    /\ authCodes = EmptyMap
    /\ users = [i \in Identities |-> 0]
    /\ authReq = <<>>
    /\ progress = [k \in Keys |-> <<>>]
    /\ \E q1 \in ValidQualities, q2 \in ValidQualities :
         gradeReq = [p \in Slots |->
            GradeSlot("recv", "u1", "t1", IF p = 1 THEN q1 ELSE q2, NoRow, 0, 0, 0, "none", 0, NullDate)]

\* every interleaving of the two requests' steps
GradeRaceNext == \E p \in Slots : GradeStep(p)

GradeRaceSpec == GradeRaceInit /\ [][GradeRaceNext]_vars
----------------------------------------------------------------------------
(* Two grade requests for one existing record in flight together *)

\* the record of (u1, t1) was graded to level L on day 0, and two grade
\* requests for it have arrived
LostUpdateInit ==
    /\ attempts = <<>>
    /\ server = "main"
    /\ now = 0
    /\ authCodes = EmptyMap
    /\ users = [i \in Identities |-> 0]
    /\ authReq = <<>>
    /\ \E L \in 0..(Len(mapping) - 1) :
         progress = [k \in Keys |-> IF k = <<"u1", "t1">> THEN <<GradedRow(L, 0)>> ELSE <<>>]
    /\ \E q1 \in ValidQualities, q2 \in ValidQualities :
         gradeReq = [p \in Slots |->
            GradeSlot("recv", "u1", "t1", IF p = 1 THEN q1 ELSE q2, NoRow, 0, 0, 0, "none", 0, NullDate)]

\* every interleaving of the two requests' steps; the row exists, so no
\* request reaches the create
LostUpdateNext ==
    \E p \in Slots : ReviewGrade(p) \/ GradeFind(p) \/ GradeCompute(p) \/ GradeUpdate(p)

LostUpdateSpec == LostUpdateInit /\ [][LostUpdateNext]_vars
----------------------------------------------------------------------------
(* The second variant: POST /api/review/grade with GET /api/review/due *)

\* The grade handler of the second variant (lines 1126-1177) is the text of
\* the first, behind the requireAuth that leaves req.userId undefined: its
\* findFirst has no userId filter, and its create has no userId to store.

\* slots that take grade requests, and slots that take queries
GradeSlots == SeqSlots
QuerySlots == Slots \ SeqSlots

AllFree == \A q \in Slots : gradeReq[q].pc \in {"idle", "done"}

\* the grade requests followed here: topic t1, a failing and a passing quality
MasteryTopic == "t1"
MasteryQualities == {Num(2), Num(3)}
MasteryGradeRequests ==
    {r \in GradeRequests : r.topicId = MasteryTopic /\ r.quality \in MasteryQualities}

\* express routes a grade request; requests arrive one after the other
MasteryGradeReceive(p, r) ==
    /\ AllFree
    /\ r \in MasteryGradeRequests
    /\ gradeReq' = [gradeReq EXCEPT ![p] = r]
    /\ UNCHANGED <<server, attempts, now, authCodes, users, authReq, progress>>

\* express routes a due-list query
MasteryQueryReceive(p, r) ==
    /\ AllFree
    /\ r.op = "due"
    /\ QueryReceive(p, r)

\* line 1139: prisma.userProgress.findFirst({ where: { userId, topicId } })
\* runs: with no orderBy, any of the matching rows is the first
MasteryGradeFind(p) ==
    /\ gradeReq[p].pc = "find"
    /\ LET r == gradeReq[p]
           found == {x \in StoredRows(progress) :
                        /\ WhereUserId(HandlerUserId(server, r.userId), x.userId)
                        /\ x.topicId = r.topicId}
       IN \E dbOk \in BOOLEAN :
            IF ~dbOk THEN gradeReq' = [gradeReq EXCEPT ![p] = GradeDone(r, "InternalError", 0, NullDate)]
            ELSE IF found = {} THEN gradeReq' = [gradeReq EXCEPT ![p] = [r EXCEPT !.pc = "create"]]
            ELSE \E x \in found :
                   gradeReq' = [gradeReq EXCEPT ![p] =
                     [r EXCEPT !.pc = "found",
                               !.row = [idx |-> x.idx, masteryLevel |-> x.masteryLevel,
                                        owner |-> x.userId]]]
    /\ UNCHANGED <<server, attempts, now, authCodes, users, authReq, progress>>

\* line 1141: prisma.userProgress.create({ data: { userId, topicId,
\* masteryLevel: 0 } }) with userId undefined: the row's user is missing and
\* the call is rejected
MasteryGradeCreate(p) ==
    /\ gradeReq[p].pc = "create"
    /\ HandlerUserId(server, gradeReq[p].userId) = UNDEF
    /\ gradeReq' = [gradeReq EXCEPT ![p] = GradeDone(gradeReq[p], "InternalError", 0, NullDate)]
    /\ UNCHANGED <<server, attempts, now, authCodes, users, authReq, progress>>

\* lines 1159-1172: prisma.userProgress.update({ where: { id: progress.id } })
\* runs in the database, and the handler answers with the updated row
MasteryGradeUpdate(p) ==
    /\ gradeReq[p].pc = "update"
    /\ LET r == gradeReq[p]
           key == <<r.row.owner, r.topicId>>
       IN \E dbOk \in BOOLEAN :
            IF dbOk
            THEN /\ progress' = [progress EXCEPT ![key][r.row.idx] =
                        ProgressRow(r.newMastery, DateOf(r.at), DateOf(r.next), now)]
                 /\ gradeReq' = [gradeReq EXCEPT ![p] = GradeDone(r, "ok", r.newMastery, DateOf(r.next))]
            ELSE /\ gradeReq' = [gradeReq EXCEPT ![p] = GradeDone(r, "InternalError", 0, NullDate)]
                 /\ UNCHANGED progress
    /\ UNCHANGED <<server, attempts, now, authCodes, users, authReq>>

\* the rows are those the first variant's grade handler left in the shared
\* database; grade requests run in the first slot and queries in the second
MasteryInit ==
    /\ attempts = <<>>
    /\ server = "mastery"
    /\ now = 1
    /\ authCodes = EmptyMap
    /\ users = [i \in Identities |-> 0]
    /\ authReq = <<>>
    /\ progress \in {f \in [Keys -> {<<>>} \cup {<<GradedRow(L, 0)>> : L \in RowLevels}] :
                        \A k \in Keys : k[2] # MasteryTopic => f[k] = <<>>}
    /\ gradeReq = [p \in Slots |-> IF p \in GradeSlots THEN GradeIdle ELSE QueryIdle]

MasteryNext ==
    \/ \E p \in GradeSlots :
         \/ \E r \in MasteryGradeRequests : MasteryGradeReceive(p, r)
         \/ ReviewGrade(p)
         \/ MasteryGradeFind(p)
         \/ MasteryGradeCreate(p)
         \/ GradeCompute(p)
         \/ MasteryGradeUpdate(p)
    \/ \E p \in QuerySlots :
         \/ \E r \in QueryRequests : MasteryQueryReceive(p, r)
         \/ QueryAuth(p)
         \/ ReviewDue(p)

MasterySpec == MasteryInit /\ [][MasteryNext]_vars



----------------------------------------------------------------------------
(* Two verifications of one issued code in flight together *)

VerifyOps == {"verifyEmail", "verifySms", "verifyCode"}
IssueOps == {"sendEmail", "sendSms", "requestCode"}
Resolving == {"find", "create", "created"}

RaceCode == GenerateCode(0)

\* the state after one issue at time 0 and the arrival of two verification
\* requests for the issued code (with the bound phone in the SMS flow); the
\* user of the identity exists already or not
VerifyRaceInit ==
    /\ attempts = <<>>
    /\ now = 0
    /\ progress = <<>>
    /\ gradeReq = <<>>
    /\ \E op \in VerifyOps, known \in BOOLEAN :
         LET ident == IF op = "verifyEmail" THEN "a@mail.ru"
                      ELSE IF op = "verifySms" THEN "+7001" ELSE "tg1"
             data == IF op = "verifyEmail" THEN CodeData(ident, UNDEF, UNDEF, CodeTtlMinutes)
                     ELSE IF op = "verifySms" THEN CodeData(UNDEF, ident, UNDEF, CodeTtlMinutes)
                     ELSE CodeData(UNDEF, UNDEF, ident, CodeTtlMinutes)
         IN /\ server = IF op = "verifyCode" THEN "bot" ELSE "main"
            /\ authCodes = MapSet(EmptyMap, RaceCode, data)
            /\ users = [i \in Identities |-> IF known /\ i = ident THEN 1 ELSE 0]
            /\ authReq = [p \in Slots |->
                   AuthSlot(op, "recv", RaceCode, IF op = "verifySms" THEN ident ELSE Empty,
                            NoData, FALSE, "none", UNDEF)]

\* every interleaving of the two requests' steps
VerifyRaceNext ==
    \E p \in Slots :
        \/ VerifyEmailCode(p) \/ VerifyEmailFind(p) \/ VerifyEmailCreate(p) \/ VerifyEmailDone(p)
        \/ VerifySmsCode(p) \/ VerifySmsFind(p) \/ VerifySmsCreate(p) \/ VerifySmsDone(p)
        \/ VerifyCode(p) \/ VerifyCodeFind(p) \/ VerifyCodeCreate(p) \/ VerifyCodeDone(p)

VerifyRaceSpec == VerifyRaceInit /\ [][VerifyRaceNext]_vars

----------------------------------------------------------------------------
(* Requests that follow the issue of a code *)

\* the state after one issue request, for an email, a phone or a telegramId,
\* stored RaceCode at time 0 and was answered; slot 2 keeps that request and
\* the requests that follow run in slot 1
CollisionInit ==
    /\ attempts = <<>>
    /\ now = 0
    /\ progress = <<>>
    /\ gradeReq = <<>>
    /\ users = [i \in Identities |-> 0]
    /\ \E op \in IssueOps :
         LET ident == IF op = "sendEmail" THEN "a@mail.ru"
                      ELSE IF op = "sendSms" THEN "+7001" ELSE "tg1"
             data == IF op = "sendEmail" THEN CodeData(ident, UNDEF, UNDEF, CodeTtlMinutes)
                     ELSE IF op = "sendSms" THEN CodeData(UNDEF, ident, UNDEF, CodeTtlMinutes)
                     ELSE CodeData(UNDEF, UNDEF, ident, CodeTtlMinutes)
         IN /\ server = IF op = "requestCode" THEN "bot" ELSE "main"
            /\ authCodes = MapSet(EmptyMap, RaceCode, data)
            /\ authReq = [p \in Slots |->
                   IF p \in SeqSlots THEN AuthIdle
                   ELSE [AuthDone(AuthSlot(op, "deliver", RaceCode, ident, data, FALSE, "none", UNDEF),
                                  "ok", UNDEF) EXCEPT !.delivery = "sent"]]

\* the clock of this specification stops at MaxCollisionMinute: the codes
\* it follows are verified inside their validity window
MaxCollisionMinute == 1

CollisionTick ==
    /\ now < MaxCollisionMinute
    /\ now' = now + 1
    /\ UNCHANGED <<server, attempts, authCodes, users, authReq, progress, gradeReq>>

CollisionNext ==
    \/ CollisionTick
    \/ \E p \in SeqSlots : (\E r \in MainRequests \cup BotRequests : AuthReceive(p, r)) \/ AuthStep(p)

CollisionSpec == CollisionInit /\ [][CollisionNext]_vars

----------------------------------------------------------------------------
(* Properties of the one-time-code authenticator *)

\* the entry is bound by the issue operation of the channel the request came by
\* (and, in the SMS flow, to the phone the request names)
BoundTo(r, data) ==
    IF r.op = "verifyEmail" THEN data.email # UNDEF
    ELSE IF r.op = "verifySms" THEN data.phone = r.ident
    ELSE data.telegramId # UNDEF

\* the request names a code (and a phone in the SMS flow)
WellFormed(r) == r.code # <<>> /\ (r.op = "verifySms" => r.ident # Empty)

\* slot p's handler runs its first block on a verification request
VerifyArrives(p) ==
    /\ authReq[p].pc = "recv" /\ authReq[p].op \in VerifyOps
    /\ authReq'[p] # authReq[p]
    /\ WellFormed(authReq[p])

\* the registry without the entry of code
Without(map, code) == [c \in DOMAIN map \ {code} |-> map[c]]

\* a verification of an absent code answers InvalidCode
AbsentIsInvalid(p) ==
    (VerifyArrives(p) /\ authReq[p].code \notin DOMAIN authCodes)
        => (authReq'[p].pc = "done" /\ authReq'[p].status = "InvalidCode")

C1_Step(p) ==
    LET r == authReq[p]
        r2 == authReq'[p]
    IN /\ (VerifyArrives(p) /\ r.code \in DOMAIN authCodes /\ BoundTo(r, authCodes[r.code])
             /\ now <= authCodes[r.code].expiresAt)
            => (r2.pc = "find" /\ r2.data = authCodes[r.code])
       /\ (r.op \in VerifyOps /\ r.pc \in Resolving /\ r2.pc = "done")
            => /\ r2.status \in {"ok", "InternalError"}
               /\ r2.status = "ok" =>
                    /\ r.code \notin DOMAIN authCodes'
                    /\ r2.user \in {r.data.email, r.data.phone, r.data.telegramId} \ {UNDEF}
       /\ (r.op \in VerifyOps /\ r.pc \in Resolving /\ r2 # r /\ r2.pc # "done")
            => r2.pc \in Resolving
       /\ AbsentIsInvalid(p)
       /\ \A c \in DOMAIN authCodes' \ DOMAIN authCodes :
            \E q \in Slots : authReq[q].pc = "recv" /\ authReq[q].op \in IssueOps

\* C1: with requests one after the other, a verification of a present code,
\* bound by its channel and not past expiresAt, goes on to resolve the user and,
\* unless the user store fails, answers success; when it answers success the
\* code is no longer in the registry; a verification of an absent code answers
\* InvalidCode; and only an issue puts a code into the registry.  So an issued
\* code authenticates once.
C1_SingleUse == [][\A p \in Slots : C1_Step(p)]_vars

\* C1: a verification answered InvalidCode after an earlier one created the
\* user and consumed the code
C1_Witness ==
    \E p \in Slots :
        /\ authReq[p].pc = "done" /\ authReq[p].op = "verifyEmail"
        /\ authReq[p].status = "InvalidCode"
        /\ users["a@mail.ru"] = 1
        /\ authReq[p].code \notin DOMAIN authCodes

\* C2: of two verifications of the same issued, non-expired code, at most one
\* answers success, in every interleaving
C2_AtMostOneSuccess ==
    ~ (\A p \in Slots : authReq[p].pc = "done" /\ authReq[p].status = "ok")

C3_Step(p) ==
    LET r == authReq[p]
        r2 == authReq'[p]
    IN /\ (VerifyArrives(p) /\ r.code \in DOMAIN authCodes
             /\ (r.op = "verifySms" => authCodes[r.code].phone = r.ident)
             /\ now > authCodes[r.code].expiresAt)
            => /\ r2.pc = "done" /\ r2.status = "CodeExpired"
               /\ authCodes' = Without(authCodes, r.code)
               /\ users' = users
       /\ AbsentIsInvalid(p)
       /\ (r2 # r /\ r2.pc = "done" /\ r2.status = "CodeExpired") => r.pc = "recv"

\* C3: a verification of a present code past its expiresAt (with the bound phone
\* in the SMS flow) answers CodeExpired straight from its first block, removes
\* exactly that entry and leaves the user store alone; a verification of the
\* then absent code answers InvalidCode.
C3_Expiry == [][\A p \in Slots : C3_Step(p)]_vars

\* C3: a verification answered CodeExpired, the clock past the time to live and
\* the code gone
C3_Witness ==
    \E p \in Slots :
        /\ authReq[p].pc = "done" /\ authReq[p].op \in VerifyOps
        /\ authReq[p].status = "CodeExpired"
        /\ now > CodeTtlMinutes
        /\ authReq[p].code \notin DOMAIN authCodes

C4_Step(p) ==
    (VerifyArrives(p) /\ authReq[p].code \notin DOMAIN authCodes)
        => /\ authReq'[p].pc = "done" /\ authReq'[p].status = "InvalidCode"
           /\ authCodes' = authCodes
           /\ users' = users

\* C4: a verification of a code that is not in the registry answers InvalidCode
\* and changes neither the registry nor the user store.
C4_UnknownCode == [][\A p \in Slots : C4_Step(p)]_vars

\* C4: the bot server has answered InvalidCode for a code while its registry
\* holds another one
C4_Witness ==
    \E p \in Slots :
        /\ authReq[p].pc = "done" /\ authReq[p].op = "verifyCode"
        /\ authReq[p].status = "InvalidCode"
        /\ authReq[p].code \notin DOMAIN authCodes
        /\ authCodes # EmptyMap

C5_Step(p) ==
    LET r == authReq[p]
        r2 == authReq'[p]
    IN /\ (VerifyArrives(p) /\ r.op = "verifySms" /\ r.code \in DOMAIN authCodes
             /\ authCodes[r.code].phone # r.ident)
            => /\ r2.pc = "done" /\ r2.status = "InvalidCode"
               /\ authCodes' = authCodes
               /\ users' = users
       /\ (VerifyArrives(p) /\ r.op = "verifySms" /\ r.code \in DOMAIN authCodes
             /\ authCodes[r.code].phone = r.ident /\ now <= authCodes[r.code].expiresAt)
            => r2.pc = "find"
       /\ (r.op = "verifySms" /\ r.pc \in Resolving /\ r2.pc = "done")
            => r2.status \in {"ok", "InternalError"}

\* C5: a verify-sms-code whose code is present but bound to another phone answers
\* InvalidCode and leaves the registry (expired entries too) and the user store
\* as they are; a verification with the bound phone, not past expiresAt, then
\* still goes on to resolve the user and, unless the user store fails, succeeds.
C5_SmsMismatch == [][\A p \in Slots : C5_Step(p)]_vars

\* C5: a mismatching verification was answered InvalidCode and the entry, already
\* past its expiresAt, is still in the registry
C5_Witness ==
    \E p \in Slots :
        /\ authReq[p].pc = "done" /\ authReq[p].op = "verifySms"
        /\ authReq[p].status = "InvalidCode"
        /\ authReq[p].code \in DOMAIN authCodes
        /\ authCodes[authReq[p].code].phone \in Phones \ {authReq[p].ident}
        /\ now > authCodes[authReq[p].code].expiresAt

\* the entry an issue request r binds at time t
IssuedData(r, t) ==
    IF r.op = "sendEmail" THEN CodeData(r.ident, UNDEF, UNDEF, t + CodeTtlMinutes)
    ELSE IF r.op = "sendSms" THEN CodeData(UNDEF, r.ident, UNDEF, t + CodeTtlMinutes)
    ELSE CodeData(UNDEF, UNDEF, r.ident, t + CodeTtlMinutes)

C6_Step(p) ==
    LET r == authReq[p]
        r2 == authReq'[p]
    IN /\ (r.pc = "recv" /\ r.op \in IssueOps /\ ~IdentityMissing(r.ident) /\ r2 # r)
            => /\ r2.pc \in {"deliver", "done"}
               /\ r2.pc = "done" => r2.status = "ok"
               /\ r2.code \in DOMAIN authCodes'
               /\ authCodes'[r2.code] = IssuedData(r, now)
       /\ (r.pc = "deliver" /\ r2 # r)
            => /\ r2.pc = "done" /\ r2.status = "ok"
               /\ r.code \in DOMAIN authCodes'
               /\ authCodes'[r.code] = r.data
               /\ \E t \in 0..MaxMinute : r.data = IssuedData(r, t)

\* C6: with requests one after the other, an issue request with a non-empty
\* identity binds the generated code to that identity with expiresAt five
\* minutes on, and whatever the delivery call does (sent, rejected, throws,
\* skipped) the response is success and the code is still bound to the
\* identity when the response is sent.
C6_IssueIgnoresDelivery == [][\A p \in Slots : C6_Step(p)]_vars

\* C6: the mail transport threw, the response was success and the code is in
\* the registry
C6_Witness ==
    \E p \in Slots :
        /\ authReq[p].pc = "done" /\ authReq[p].op = "sendEmail"
        /\ authReq[p].delivery = "throws"
        /\ authReq[p].status = "ok"
        /\ authReq[p].code \in DOMAIN authCodes
        /\ authCodes[authReq[p].code].email = authReq[p].ident

----------------------------------------------------------------------------
(* Properties of the review scheduler *)

\* the interval ladder of the specification, by level 0..5
Ladder == <<1, 2, 4, 7, 14, 30>>

IsNumberIn(q, lo, hi) == q.kind = "number" /\ q.v >= lo /\ q.v <= hi

\* slot p's update is written and answered
GradeWritten(p) ==
    /\ gradeReq[p].pc = "update"
    /\ gradeReq'[p].pc = "done" /\ gradeReq'[p].status = "ok"

\* an authenticated, complete request with a quality in lo..hi starts
GradeArrives(p, lo, hi) ==
    /\ gradeReq[p].pc = "recv" /\ gradeReq'[p] # gradeReq[p]
    /\ gradeReq[p].userId # Empty /\ gradeReq[p].topicId # Empty
    /\ IsNumberIn(gradeReq[p].quality, lo, hi)

C7_Step(p) ==
    LET r == gradeReq[p]
        r2 == gradeReq'[p]
        key == <<r.userId, r.topicId>>
    IN /\ GradeArrives(p, 3, 5) => r2.pc = "find"
       /\ (GradeWritten(p) /\ IsNumberIn(r.quality, 3, 5))
            => LET L == progress[key][r.row.idx].masteryLevel
                   L2 == IF L + 1 > 5 THEN 5 ELSE L + 1
                   written == progress'[key][r.row.idx]
               IN /\ written.masteryLevel = L2
                  /\ written.nextReview = <<now + Ladder[L2 + 1]>>
                  /\ written.lastReviewed = <<now>>
                  /\ r2.masteryLevel = L2 /\ r2.nextReview = written.nextReview
                  /\ (L = 0 /\ r.quality.v = 5)
                        => (written.masteryLevel = 1 /\ written.nextReview = <<now + 2>>)

\* C7: a grade of 3..5 is accepted, and when its update is written the row that
\* was at level L (0 when this request created it) is at min(5, L+1) with
\* lastReviewed = now and nextReview = now + Ladder[min(5, L+1)] days, which is
\* also what the response carries; from level 0 a grade of 5 gives level 1 and
\* now + 2 days.
C7_PassingGrade == [][\A p \in Slots : C7_Step(p)]_vars

\* C7: a topic with no row was graded 5: its only row is at level 1, due in 2 days
C7_Witness ==
    \E p \in Slots :
        /\ gradeReq[p].pc = "done" /\ gradeReq[p].status = "ok"
        /\ gradeReq[p].quality = Num(5)
        /\ gradeReq[p].masteryLevel = 1 /\ gradeReq[p].nextReview = <<now + 2>>
        /\ progress[<<gradeReq[p].userId, gradeReq[p].topicId>>]
             = <<ProgressRow(1, <<now>>, <<now + 2>>, now)>>

C8_Step(p) ==
    LET r == gradeReq[p]
        r2 == gradeReq'[p]
        key == <<r.userId, r.topicId>>
    IN /\ GradeArrives(p, 0, 2) => r2.pc = "find"
       /\ (r.pc = "found" /\ r2 # r /\ IsNumberIn(r.quality, 0, 2))
            => (r2.pc = "update" /\ r2.newMastery = 0 /\ r2.next = now + 1)
       /\ (GradeWritten(p) /\ IsNumberIn(r.quality, 0, 2))
            => LET written == progress'[key][r.row.idx]
               IN /\ written.masteryLevel = 0
                  /\ written.nextReview = <<now + 1>>
                  /\ written.lastReviewed = <<now>>
                  /\ r2.masteryLevel = 0 /\ r2.nextReview = <<now + 1>>

\* C8: a grade of 0..2 (0 included: it is not a missing field) is accepted, and
\* whatever level the row was at, the update sets it to level 0 with
\* lastReviewed = now and nextReview = now + 1 day.
C8_FailingGrade == [][\A p \in Slots : C8_Step(p)]_vars

\* C8: a row at level 4 is graded 2 and the update to level 0, due in 1 day, is
\* on its way
C8_Witness ==
    \E p \in Slots :
        /\ gradeReq[p].pc = "update"
        /\ gradeReq[p].quality = Num(2)
        /\ gradeReq[p].row.masteryLevel = 4
        /\ gradeReq[p].newMastery = 0 /\ gradeReq[p].next = now + 1

\* C9: every progress row has masteryLevel in 0..5, so has every response, and
\* a passing grade on a row at level 5 writes level 5 again.
C9_MasteryBound ==
    /\ \A k \in DOMAIN progress : \A i \in 1..Len(progress[k]) :
         progress[k][i].masteryLevel \in 0..5
    /\ \A p \in Slots :
         /\ gradeReq[p].pc = "done" => gradeReq[p].masteryLevel \in 0..5
         /\ (gradeReq[p].pc = "update" /\ QAtLeast(gradeReq[p].quality, 3)
               /\ gradeReq[p].row.masteryLevel = 5) => gradeReq[p].newMastery = 5

\* C9: a row that passing grades brought to level 5 is graded 5 once more and
\* stays at 5
C9_Witness ==
    \E p \in Slots :
        /\ gradeReq[p].pc = "done" /\ gradeReq[p].status = "ok"
        /\ gradeReq[p].quality = Num(5)
        /\ gradeReq[p].masteryLevel = 5
        /\ progress[<<gradeReq[p].userId, gradeReq[p].topicId>>][1].masteryLevel = 5
        /\ progress[<<gradeReq[p].userId, gradeReq[p].topicId>>][1].nextReview = <<now + 30>>

C10_Step(p) ==
    LET r == gradeReq[p]
        r2 == gradeReq'[p]
    IN (r.pc = "recv" /\ r2 # r /\ r.userId # Empty
          /\ r.quality.kind = "number" /\ (r.quality.v < 0 \/ r.quality.v > 5))
         => /\ r2.pc = "done" /\ r2.status = "InvalidInput"
            /\ progress' = progress

\* C10: an authenticated grade request whose quality is below 0 or above 5 is
\* answered InvalidInput from the handler's first block and the progress store
\* is unchanged: no row is created and no row's fields are touched.
C10_OutOfRange == [][\A p \in Slots : C10_Step(p)]_vars

\* C10: a grade of 6 for a topic that has a row was answered InvalidInput
C10_Witness ==
    \E p \in Slots :
        /\ gradeReq[p].pc = "done" /\ gradeReq[p].status = "InvalidInput"
        /\ gradeReq[p].quality = Num(6)
        /\ gradeReq[p].userId # Empty /\ gradeReq[p].topicId # Empty
        /\ Len(progress[<<gradeReq[p].userId, gradeReq[p].topicId>>]) = 1

----------------------------------------------------------------------------
(* Properties of the interval ladder *)

\* C11: getNextIntervalDaysByMastery(level) is [1,2,4,7,14,30][level] for level
\* in 0..5, 1 for every level below 0, 30 for every level above 5, and never
\* decreases when the level grows.
C11_IntervalLadder ==
    gradeReq.pc = "return" =>
        /\ gradeReq.a \in 0..5 => gradeReq.fa = Ladder[gradeReq.a + 1]
        /\ gradeReq.a < 0 => gradeReq.fa = 1
        /\ gradeReq.a > 5 => gradeReq.fa = 30
        /\ gradeReq.a <= gradeReq.b => gradeReq.fa <= gradeReq.fb

\* C11: the calls for levels -1 and 6 have returned 1 and 30
C11_Witness ==
    /\ gradeReq.pc = "return"
    /\ gradeReq.a = -1 /\ gradeReq.fa = 1
    /\ gradeReq.b = 6 /\ gradeReq.fb = 30

----------------------------------------------------------------------------
(* Properties of the progress store *)

\* C12: the progress store holds at most one row per (userId, topicId), also
\* after two grade requests for the same pair that both found no row
C12_OneRowPerKey == \A k \in DOMAIN progress : Len(progress[k]) <= 1

----------------------------------------------------------------------------
(* Properties of the due list and the summary *)

\* an answered /api/review/due request
DueAnswered(r) == r.pc = "done" /\ r.op = "due" /\ r.status = "ok"

\* C13: the due list returns only records of the requesting user whose
\* masteryLevel is below 3; a record at level 3 or above is never returned,
\* whatever its nextReview, and every record of the user below level 3 is
\* returned (up to the limit), also when its nextReview is in the future.
C13_DueMembership ==
    \A p \in Slots :
        DueAnswered(gradeReq[p]) =>
            LET r == gradeReq[p]
                mine == {x \in StoredRows(progress) : x.userId = r.tokenUser /\ x.masteryLevel < 3}
                returned == {r.due[i] : i \in 1..Len(r.due)}
            IN /\ returned \subseteq mine
               /\ Cardinality(mine) <= DueTake => mine \subseteq returned

\* C14: the due list is ordered by nextReview ascending with the records
\* that have no nextReview before the dated ones, and records with equal
\* nextReview come most recently updated first.
C14_DueOrdering ==
    \A p \in Slots :
        DueAnswered(gradeReq[p]) =>
            LET due == gradeReq[p].due IN
            \A i, j \in 1..Len(due) :
                i < j =>
                    /\ due[j].nextReview = NullDate => due[i].nextReview = NullDate
                    /\ (due[i].nextReview # NullDate /\ due[j].nextReview # NullDate)
                         => due[i].nextReview[1] <= due[j].nextReview[1]
                    /\ due[i].nextReview = due[j].nextReview
                         => due[i].updatedAt >= due[j].updatedAt

\* C15: the dueCount of the progress summary is the number of records the due
\* list selects for the same user when no limit applies, the records without
\* a nextReview included.
C15_DueCountAgrees ==
    \A p \in Slots :
        LET r == gradeReq[p] IN
        (r.pc = "done" /\ r.op = "summary" /\ r.status = "ok") =>
            r.dueCount = Cardinality(DueRows(server, r.userId, now, progress))

----------------------------------------------------------------------------
(* Properties of the code registry around the user store *)

\* C16: a verification that succeeds removes the code from the registry
\* before the user store is read or written: while the user is being
\* resolved the code is no longer registered, and when the resolution fails
\* with a storage error the code stays consumed.
C16_DeleteBeforeResolve ==
    \A p \in Slots :
        LET r == authReq[p] IN
        r.op \in VerifyOps =>
            /\ r.pc \in {"find", "create", "created"} => r.code \notin DOMAIN authCodes
            /\ (r.pc = "done" /\ r.status = "InternalError") => r.code \notin DOMAIN authCodes

\* slot p's handler runs its first block on an issue request and stores a code
IssueStores(p) ==
    /\ authReq[p].pc = "recv" /\ authReq[p].op \in IssueOps
    /\ authReq'[p].pc = "deliver"

C17_Step(p) ==
    IssueStores(p) =>
        LET code == authReq'[p].code IN
        /\ DOMAIN authCodes' = DOMAIN authCodes \cup {code}
        /\ \A c \in DOMAIN authCodes \ {code} : authCodes'[c] = authCodes[c]

\* C17: issuing a code adds or overwrites only the entry of the code it
\* generated: every other entry of the registry, whatever channel issued it,
\* is still there with the same identity and expiresAt, and so still verifies.
C17_IssueFrame == [][\A p \in Slots : C17_Step(p)]_vars

----------------------------------------------------------------------------
(* Properties of the validity window *)

\* the identities an entry is bound to
IdentitiesOf(data) ==
    {f \in {"email", "phone", "telegramId"} :
        (IF f = "email" THEN data.email ELSE IF f = "phone" THEN data.phone ELSE data.telegramId)
            # UNDEF}

C18_Step(p) ==
    LET r == authReq[p]
        r2 == authReq'[p]
    IN /\ IssueStores(p)
            => /\ authCodes'[r2.code].expiresAt = now + 5
               /\ Cardinality(IdentitiesOf(authCodes'[r2.code])) = 1
       /\ \A c \in DOMAIN authCodes :
            /\ authCodes[c].expiresAt - 5 \in 0..now
            /\ Cardinality(IdentitiesOf(authCodes[c])) = 1
       /\ (VerifyArrives(p) /\ r.code \in DOMAIN authCodes /\ now <= authCodes[r.code].expiresAt)
            => r2.status # "CodeExpired"
       /\ (VerifyArrives(p) /\ r.code \in DOMAIN authCodes /\ BoundTo(r, authCodes[r.code])
             /\ now <= authCodes[r.code].expiresAt)
            => r2.pc = "find"
       /\ (VerifyArrives(p) /\ r.code \in DOMAIN authCodes /\ BoundTo(r, authCodes[r.code])
             /\ now > authCodes[r.code].expiresAt)
            => (r2.pc = "done" /\ r2.status = "CodeExpired")

\* C18: a code issued at t0 is stored with expiresAt = t0 + 5 minutes and
\* exactly one of email, phone and telegramId; a verification at a time t
\* with t0 <= t <= t0 + 5, the boundary included, is not answered CodeExpired
\* (by its own channel it goes on to resolve the user), and one at t > t0 + 5
\* is answered CodeExpired.
C18_ValidityWindow == [][\A p \in Slots : C18_Step(p)]_vars

\* C18: a verification passed the expiry test in the last minute of the
\* window, now = expiresAt
C18_Witness ==
    \E p \in Slots :
        /\ authReq[p].op \in VerifyOps /\ authReq[p].pc = "find"
        /\ authReq[p].code \in DOMAIN authCodes
        /\ authReq[p].data = authCodes[authReq[p].code]
        /\ now = authCodes[authReq[p].code].expiresAt
        /\ now = 5

----------------------------------------------------------------------------
(* Properties of the registry entry's lifecycle *)

\* slot p's verification, which found its code in the registry, is answered
\* with this status
VerifyAnswers(p, status) ==
    /\ authReq[p].op \in VerifyOps
    /\ authReq[p].pc \in {"recv"} \cup Resolving
    /\ authReq[p].pc = "recv" => (WellFormed(authReq[p]) /\ authReq[p].code \in DOMAIN authCodes)
    /\ authReq'[p].pc = "done" /\ authReq'[p].status = status

C19_Original(p) ==
    \A status \in {"ok", "CodeExpired", "InvalidCode"} :
        VerifyAnswers(p, status) => authReq[p].code \notin DOMAIN authCodes'

\* C19 as stated: every verification that finds its code in the registry
\* removes the entry, whether it ends in success, in expiry or in a channel
\* mismatch.
C19_EveryVerificationConsumes == [][\A p \in Slots : C19_Original(p)]_vars

C19_Step(p) ==
    LET r == authReq[p] IN
    /\ \A status \in {"ok", "CodeExpired"} :
         VerifyAnswers(p, status) => r.code \notin DOMAIN authCodes'
    /\ VerifyAnswers(p, "InvalidCode")
         => /\ r.op = "verifySms"
            /\ authCodes[r.code].phone # r.ident
            /\ authCodes' = authCodes

\* C19: with requests one after the other, a verification that finds its
\* code in the registry removes the entry when it ends in success or in
\* expiry; when it ends in a mismatch (an SMS verification naming another
\* phone than the bound one) the entry stays in the registry as it was.
C19_ConsumesUnlessMismatch == [][\A p \in Slots : C19_Step(p)]_vars

\* C19: an SMS verification naming another phone was answered InvalidCode and
\* the entry, still inside its validity window, is in the registry
C19_Witness ==
    \E p \in Slots :
        /\ authReq[p].pc = "done" /\ authReq[p].op = "verifySms"
        /\ authReq[p].status = "InvalidCode"
        /\ authReq[p].code \in DOMAIN authCodes
        /\ authCodes[authReq[p].code].phone \in Phones \ {authReq[p].ident}
        /\ now <= authCodes[authReq[p].code].expiresAt

----------------------------------------------------------------------------
(* Properties of two issues that generate the same code *)

\* the identity an entry is bound to
BoundIdentity(data) ==
    IF data.email # UNDEF THEN data.email
    ELSE IF data.phone # UNDEF THEN data.phone
    ELSE data.telegramId

\* slot q holds an answered issue request whose code is now bound to another
\* identity
Overwritten(q, code) ==
    /\ authReq[q].pc = "done" /\ authReq[q].op \in IssueOps
    /\ authReq[q].code = code
    /\ code \in DOMAIN authCodes
    /\ BoundIdentity(authCodes[code]) # authReq[q].ident

C20_Step(p) ==
    LET r == authReq[p]
        r2 == authReq'[p]
    IN /\ (IssueStores(p) /\ r2.code \in DOMAIN authCodes)
            => LET A == BoundIdentity(authCodes[r2.code]) IN
               /\ authCodes'[r2.code] = IssuedData(r, now)
               /\ BoundIdentity(authCodes'[r2.code]) = r.ident
               /\ A # r.ident =>
                    \A d \in DOMAIN authCodes' :
                        BoundIdentity(authCodes'[d]) = A
                            => (d # r2.code /\ d \in DOMAIN authCodes /\ authCodes'[d] = authCodes[d])
       /\ (r.op \in VerifyOps /\ r.pc \in Resolving /\ r2.pc = "done" /\ r2.status = "ok")
            => /\ r.code \in DOMAIN authCodes
               /\ r2.user = BoundIdentity(authCodes[r.code])
               /\ \A q \in Slots \ {p} : Overwritten(q, r.code) => r2.user # authReq[q].ident

\* C20: when an issue for B generates a code that the registry already holds
\* for A, the one entry of that code is afterwards bound to B alone, with
\* expiresAt five minutes after B's issue, and the step leaves A no entry it
\* did not have under another code; a verification of the code that
\* succeeds resolves the user of the identity the entry is bound to, B, and
\* not the user of A.
C20_LastWriteWins == [][\A p \in Slots : C20_Step(p)]_vars

\* C20: the code issued for one identity was issued again for another, and a
\* verification of it succeeded as the second identity's user
C20_Witness ==
    \E p \in Slots, q \in Slots :
        /\ authReq[q].pc = "done" /\ authReq[q].op \in IssueOps
        /\ authReq[p].pc = "done" /\ authReq[p].op \in VerifyOps
        /\ authReq[p].status = "ok"
        /\ authReq[p].code = authReq[q].code
        /\ authReq[p].user \in Identities \ {authReq[q].ident}

----------------------------------------------------------------------------
(* Properties of the user store *)

\* C21: a verification that succeeds returns a user the store holds under
\* the identity it resolved, and after any interleaving of verifications the
\* user store holds at most one user per channel identity.
C21_OneUserPerIdentity ==
    /\ \A p \in Slots :
         (authReq[p].op \in VerifyOps /\ authReq[p].pc = "done" /\ authReq[p].status = "ok")
            => (authReq[p].user \in DOMAIN users /\ users[authReq[p].user] >= 1)
    /\ \A i \in DOMAIN users : users[i] <= 1

----------------------------------------------------------------------------
(* Properties of concurrent grades *)

\* the level the specification gives a record at level L graded q
GradeApplied(q, L) == IF q.v >= 3 THEN (IF L + 1 > 5 THEN 5 ELSE L + 1) ELSE 0

\* C22: when two concurrent grade requests for one existing record have both
\* been answered, the record's masteryLevel is what the two grades give when
\* applied one after the other in some order: the level one request
\* answered, graded with the other request's quality.  Two passing grades
\* from level L <= 3 end at L + 2.
C22_NoLostUpdate ==
    (\A p \in Slots : gradeReq[p].pc = "done" /\ gradeReq[p].status = "ok")
        => \E a \in Slots, b \in Slots :
             /\ a # b
             /\ progress[<<"u1", "t1">>][1].masteryLevel
                    = GradeApplied(gradeReq[b].quality, gradeReq[a].masteryLevel)

----------------------------------------------------------------------------
(* Properties of user isolation *)

\* C23: the due list and the progress summary of an authenticated user read
\* only the records of that user: every record the due list returns is the
\* user's, and the summary counts the user's records and no others, in the
\* first and in the second server variant.
C23_UserIsolation ==
    \A p \in Slots :
        LET r == gradeReq[p]
            own == {x \in StoredRows(progress) : x.userId = r.tokenUser}
        IN (r.pc = "done" /\ r.status = "ok")
            => /\ r.op = "due" => \A i \in 1..Len(r.due) : r.due[i] \in own
               /\ r.op = "summary" => r.totalTrackedTopics = Cardinality(own)

----------------------------------------------------------------------------
(* Properties of the stored schedule *)

\* the days between the two dates of a graded row
ReviewDistance(row) == row.nextReview[1] - row.lastReviewed[1]

\* C24: with grade requests handled one after the other, every progress
\* record that has been graded (lastReviewed not null) has nextReview =
\* lastReviewed + the interval of its masteryLevel, so nextReview is later
\* than lastReviewed and their distance is one of 1, 2, 4, 7, 14, 30 days.
C24_ScheduleInvariant ==
    \A k \in DOMAIN progress :
        \A i \in 1..Len(progress[k]) :
            LET row == progress[k][i] IN
            row.lastReviewed # NullDate =>
                /\ row.nextReview # NullDate
                /\ row.masteryLevel \in 0..5
                /\ ReviewDistance(row) = Ladder[row.masteryLevel + 1]
                /\ row.nextReview[1] > row.lastReviewed[1]
                /\ ReviewDistance(row) \in {1, 2, 4, 7, 14, 30}

\* C24: a record graded on day 1 to level 3 is next due seven days later
C24_Witness ==
    \E k \in DOMAIN progress :
        /\ progress[k] # <<>>
        /\ progress[k][1].masteryLevel = 3
        /\ progress[k][1].lastReviewed = <<1>>
        /\ progress[k][1].nextReview = <<8>>

----------------------------------------------------------------------------
(* Properties of the mastery threshold *)

C25_GradeStep(p) ==
    LET r == gradeReq[p]
        own == <<r.userId, r.topicId>>
    IN (GradeWritten(p) /\ progress[own] # <<>>)
        => LET L == progress[own][1].masteryLevel
               L2 == progress'[own][1].masteryLevel
           IN /\ IsNumberIn(r.quality, 3, 5) => L2 = (IF L + 1 > 5 THEN 5 ELSE L + 1)
              /\ IsNumberIn(r.quality, 0, 2) => L2 = 0

C25_DueStep(p) ==
    (gradeReq[p].pc = "find" /\ DueAnswered(gradeReq'[p]))
        => LET r == gradeReq'[p]
               returned == {r.due[i] : i \in 1..Len(r.due)}
           IN \A x \in StoredRows(progress) :
                x.userId = r.tokenUser => (x \in returned <=> x.masteryLevel < 3)

\* C25: under the mastery-threshold policy every answered passing grade of a
\* user for a topic raises that user's record by one level up to 5 and every
\* answered failing grade sets it to 0, and the due list returns the user's
\* record exactly while its level is below 3: three passing grades in a row
\* take the record from any level out of the due list, and one failing grade
\* brings it back.
C25_ThresholdCrossing ==
    [][(\A p \in GradeSlots : C25_GradeStep(p)) /\ (\A p \in QuerySlots : C25_DueStep(p))]_vars

----------------------------------------------------------------------------
(* Properties of the two due-selection policies *)

\* the records of the store that were graded today and stand at level 1 or 2
JustPassed ==
    {x \in StoredRows(progress) :
        /\ progress[<<x.userId, x.topicId>>][x.idx].lastReviewed = <<now>>
        /\ x.masteryLevel \in {1, 2}}

\* C26: the date policy (nextReview <= now or null) and the mastery policy
\* (masteryLevel < 3) are not equivalent: every record that grade requests
\* have just passed to level 1 or 2 is selected for its user by the mastery
\* policy and not by the date policy, and such records are reached by grade
\* requests alone.
C26_PoliciesDiffer ==
    \A x \in JustPassed :
        /\ x \in DueRows("mastery", x.userId, now, progress)
        /\ x \notin DueRows("main", x.userId, now, progress)

\* C26: a record was just passed to level 1, and for its user the two
\* policies select different sets
C26_Witness ==
    \E x \in JustPassed :
        /\ x.masteryLevel = 1
        /\ DueRows("mastery", x.userId, now, progress) # DueRows("main", x.userId, now, progress)

----------------------------------------------------------------------------
(* Properties of the due limit *)

\* C27: the due list returns at most limit records, the front of the ordered
\* eligible list, where limit is the one the caller supplied and 20 when
\* none was supplied.
C27_DueLimit ==
    \A p \in Slots :
        LET r == gradeReq[p]
            limit == IF r.limit.kind = "undefined" THEN 20 ELSE r.limit.v
            eligible == DueRows(server, r.userId, now, progress)
        IN DueAnswered(r) =>
            /\ Len(r.due) <= limit
            /\ Len(r.due) = Min(limit, Cardinality(eligible))
            /\ \A i \in 1..Len(r.due) : r.due[i] \in eligible

----------------------------------------------------------------------------
(* Properties of the quality constraint *)

C28_Step(p) ==
    LET r == gradeReq[p]
        r2 == gradeReq'[p]
    IN /\ (r.pc = "recv" /\ r2 # r /\ r.userId # Empty /\ r.topicId # Empty
             /\ r.quality.kind # "number")
            => (r2.pc = "done" /\ r2.status = "InvalidInput" /\ progress' = progress)
       /\ (r.quality.kind # "number" /\ r.pc # "idle") => progress' = progress

\* C28: a grade request is accepted only if its quality is an integer in
\* 0..5: a quality that is not an integer (2.5), null or a string ("5") is
\* answered InvalidInput and the progress store is left as it was.
C28_IntegerQuality == [][\A p \in Slots : C28_Step(p)]_vars

----------------------------------------------------------------------------
(* Properties of a code submitted to another channel's verification *)

\* slot p's first block runs on a verify-email-code request whose code is
\* bound to a phone
PhoneCodeToEmail(p) ==
    /\ VerifyArrives(p) /\ authReq[p].op = "verifyEmail"
    /\ authReq[p].code \in DOMAIN authCodes
    /\ authCodes[authReq[p].code].phone # UNDEF

\* slot p's first block runs on a verify-sms-code request whose code is bound
\* to an email
EmailCodeToSms(p) ==
    /\ VerifyArrives(p) /\ authReq[p].op = "verifySms"
    /\ authReq[p].code \in DOMAIN authCodes
    /\ authCodes[authReq[p].code].email # UNDEF

\* the verify-email-code request in slot p, which holds a phone's entry,
\* resumes from the user lookup
PhoneCodeResumes(p) ==
    /\ authReq[p].op = "verifyEmail" /\ authReq[p].pc \in Resolving
    /\ authReq[p].data.phone # UNDEF
    /\ authReq'[p] # authReq[p]

C29_Original(p) ==
    /\ PhoneCodeToEmail(p)
         => (authReq'[p].status # "ok" /\ users' = users /\ authCodes' = authCodes)
    /\ PhoneCodeResumes(p)
         => (authReq'[p].status # "ok" /\ users' = users /\ authCodes' = authCodes)
    /\ EmailCodeToSms(p)
         => /\ authReq'[p].pc = "done" /\ authReq'[p].status = "InvalidCode"
            /\ users' = users /\ authCodes' = authCodes

\* C29 as stated: a phone's code submitted to the email verification never
\* authenticates and never creates a user, an email's code submitted to the
\* SMS verification is answered InvalidCode, and in both cases the registry
\* entry is left in place.
C29_CrossChannelLeavesEntry == [][\A p \in Slots : C29_Original(p)]_vars

C29_Step(p) ==
    LET r == authReq[p]
        r2 == authReq'[p]
    IN /\ (PhoneCodeToEmail(p) /\ now <= authCodes[r.code].expiresAt)
            => (r2.pc = "find" /\ users' = users /\ authCodes' = authCodes)
       /\ (PhoneCodeToEmail(p) /\ now > authCodes[r.code].expiresAt)
            => /\ r2.pc = "done" /\ r2.status = "CodeExpired"
               /\ users' = users /\ authCodes' = Without(authCodes, r.code)
       /\ PhoneCodeResumes(p)
            => /\ r2.pc = "done" /\ r2.status = "InternalError"
               /\ users' = users /\ authCodes' = authCodes
       /\ EmailCodeToSms(p)
            => /\ r2.pc = "done" /\ r2.status = "InvalidCode"
               /\ users' = users /\ authCodes' = authCodes

\* C29: a phone's code submitted to the email verification never
\* authenticates and never creates a user: inside its validity window the
\* request fails at the user lookup and the entry stays in the registry, past
\* it the request is answered CodeExpired and the entry is removed; an
\* email's code submitted to the SMS verification with any phone is answered
\* InvalidCode and the entry stays in the registry.
C29_CrossChannel == [][\A p \in Slots : C29_Step(p)]_vars

\* C29: a phone's code was submitted to the email verification, the request
\* failed, no user was created and the entry is still in the registry
C29_Witness ==
    \E p \in Slots :
        /\ authReq[p].op = "verifyEmail" /\ authReq[p].pc = "done"
        /\ authReq[p].status = "InternalError"
        /\ authReq[p].code \in DOMAIN authCodes
        /\ authCodes[authReq[p].code].phone \in Phones
        /\ now <= authCodes[authReq[p].code].expiresAt
        /\ \A i \in DOMAIN users : users[i] = 0


----------------------------------------------------------------------------
(* Properties of the progress summary of the second variant *)

\* a summary the second variant has answered
SummaryAnswered(r) ==
    server = "mastery" /\ r.pc = "done" /\ r.op = "summary" /\ r.status = "ok"

\* the three counts of an answered summary add up
SummaryCountsAddUp ==
    \A p \in Slots :
        LET r == gradeReq[p] IN
        SummaryAnswered(r) => r.masteredTopics + r.dueCount = r.totalTrackedTopics

\* C30: in the mastery-threshold variant the summary of a user reports
\* masteredTopics as the number of that user's records at level 3 or above,
\* totalTrackedTopics as the number of that user's records, and
\* masteredTopics + dueCount = totalTrackedTopics.
C30_SummaryPartition ==
    \A p \in Slots :
        LET r == gradeReq[p]
            own == {x \in StoredRows(progress) : x.userId = r.tokenUser}
        IN SummaryAnswered(r) =>
            /\ r.masteredTopics = Cardinality({x \in own : x.masteryLevel >= 3})
            /\ r.totalTrackedTopics = Cardinality(own)
            /\ r.masteredTopics + r.dueCount = r.totalTrackedTopics


----------------------------------------------------------------------------
(* Properties of an issue request that names no channel identity *)

\* slot p holds an issue request whose body gives no identity, or an empty one
IssueWithoutIdentity(p) ==
    /\ authReq[p].pc = "recv"
    /\ authReq[p].op \in IssueOps
    /\ authReq[p].ident \in NoIdentity

C31_Step(p) ==
    (IssueWithoutIdentity(p) /\ authReq'[p] # authReq[p])
        => /\ authReq'[p].pc = "done"
           /\ authReq'[p].status = "BadRequest"
           /\ authReq'[p].delivery = "none"
           /\ authCodes' = authCodes

\* C31: an issue request whose channel identity is missing or empty is
\* answered with an input error, adds no entry to the registry and makes no
\* delivery call.
C31_RejectedIssuance == [][\A p \in Slots : C31_Step(p)]_vars

\* a request with an empty identity has been rejected while codes issued
\* before it are registered
C31_Witness ==
    /\ authCodes # EmptyMap
    /\ \E p \in Slots :
        /\ authReq[p].pc = "done"
        /\ authReq[p].op \in IssueOps
        /\ authReq[p].ident = Empty
        /\ authReq[p].status = "BadRequest"


----------------------------------------------------------------------------
(* Properties of the generated code *)

RECURSIVE DecimalValue(_)
\* the integer a sequence of decimal digits writes
DecimalValue(s) ==
    IF s = <<>> THEN 0 ELSE 10 * DecimalValue(SubSeq(s, 1, Len(s) - 1)) + s[Len(s)]

\* s is a string of exactly six decimal digits, the first of them not 0
SixDigits(s) ==
    /\ Len(s) = 6
    /\ \A i \in 1..6 : s[i] \in 0..9
    /\ s[1] # 0

\* C32: every key stored in the registry is the decimal string of an integer
\* in 100000..999999, exactly six digits with no leading zero, whatever value
\* in [0, 1) the random draw takes.
C32_CodeShape ==
    \A c \in DOMAIN authCodes :
        /\ SixDigits(c)
        /\ DecimalValue(c) \in 100000..999999
        /\ Digits(DecimalValue(c)) = c

\* the code of the largest draw is stored, and it is above the code of the
\* smallest draw
C32_Witness ==
    /\ gradeReq.pc = "stored"
    /\ gradeReq.k = RandDen - 1
    /\ gradeReq.code \in DOMAIN authCodes
    /\ DecimalValue(gradeReq.code) > DecimalValue(GenerateCode(0))


----------------------------------------------------------------------------
(* Properties of the average score *)

\* a summary the first variant has answered
AverageAnswered(r) ==
    server = "main" /\ r.pc = "done" /\ r.op = "summary" /\ r.status = "ok"

\* C33: the summary returns avgScore 0 for a user without attempts, and
\* otherwise the sum of the user's attempt scores divided by their number,
\* rounded to the nearest integer, a half being rounded up.
C33_AverageScore ==
    \A p \in Slots :
        LET r == gradeReq[p]
            own == attempts[r.tokenUser]
            n == Len(own)
            sum == SumScores(own)
        IN AverageAnswered(r) =>
            /\ r.totalAttempts = n
            /\ n = 0 => r.avgScore = 0
            /\ n > 0 => /\ 2 * n * r.avgScore - n <= 2 * sum
                        /\ 2 * sum < 2 * n * r.avgScore + n

\* a summary has been answered for a user whose mean score lies exactly half
\* way between two integers, while another user has an attempt too
C33_Witness ==
    \E p \in Slots :
        LET r == gradeReq[p]
            own == attempts[r.tokenUser]
        IN /\ AverageAnswered(r)
           /\ Len(own) > 1
           /\ 2 * SumScores(own) = 2 * Len(own) * r.avgScore - Len(own)
           /\ \E u \in UserIds \ {r.tokenUser} : attempts[u] # <<>>

====
